---- MODULE Spec2Model ----
(***************************************************************************)
(* A model of wgmesh: the peer reconciler (pkg/agent/peer_tracker.go), the *)
(* IP-address manager (pkg/agent/ipam.go) and the WireGuard interface      *)
(* lifecycle (pkg/interfaces).  Each subsystem has its own specification;  *)
(* the variables of the other subsystems are left unchanged by it.         *)
(***************************************************************************)
EXTENDS Integers, Sequences, FiniteSets, TLC

VARIABLES
    \* ---- peer reconciler (peerTracker) and what it drives
    reg,                    \* the registry state as observed by the informer
    peers,                  \* peerTracker.peers: self-link -> record
    initialConfigApplied,   \* peerTracker.initialConfigApplied
    device,                 \* peers configured on the WireGuard device
    calls,                  \* ConfigureDevice calls issued by the latest step
    deviceTouched,          \* some ConfigureDevice call has been issued
    allTranslated,          \* every record delivered so far translated
    lastEvent,              \* the kind and self-link of the event just handled
    errLog,                 \* the error that handler logged ("nil": none)
    \* ---- ipPool.findAddress on a loaded pool
    findPool,               \* the ipPool loadPool built
    findResult,             \* what findAddress returned, once it has
    \* ---- registryIPAM.ClaimIPs, one call per agent
    ipPoolRecord,           \* the IPPool object in the registry
    regClaims,              \* the IPClaim objects in the registry
    nextUID,                \* the UID the registry gives the next object
    ipam,                   \* per agent: where its ClaimIPs call stands
    \* ---- one WireGuard interface: its factory and its handle
    kind,                   \* "kernel" or "userspace": the driver that made it
    waitResult,             \* waitForInterface: "pending", or what it returned
    lastUpdate,             \* name carried by the last link update received
    ignored,                \* link updates waitForInterface has skipped
    timerFired,             \* the interfaceTimeout timer has fired
    ctxDone,                \* the context is cancelled
    child,                  \* the driver process: none, running, exited, reaped
    exitVal,                \* what cmd.Wait returns for the child
    linkPresent,            \* a link of the requested name exists
    closePc,                \* where the Close in progress stands
    closedOnce,             \* wgUserspaceInterface.closed has run
    errs,                   \* the errs slice of the Close in progress
    closesReturned,         \* Close calls that have returned
    lastCloseErr,           \* what the latest Close returned
    linkDelCalls,           \* netlink.LinkDel calls made
    signals,                \* process.Signal calls made
    kills,                  \* process.Kill calls made
    \* ---- Agent.Run from the registration of the local peer on
    selfRecord,             \* the registry's WireGuardPeer under the agent's name
    endpointAddr,           \* Agent.endpointAddr
    publicKey,              \* Agent.publicKey
    psk,                    \* Agent.psk
    localPeer,              \* Agent.localPeer
    runPc,                  \* where Run stands
    runErr,                 \* what Run returned
    selfUpdates,            \* Update requests Run has sent for the record
    \* ---- createOrReuseWGInterface: one call of the interface factory
    options,                \* WireGuardInterfaceOptions of the call
    ifaceName,              \* the name cursor of the loop ("" before the first)
    createPc,               \* where the call stands
    createErr,              \* the error the call returned
    attempts,               \* drivers tried for the current name, with outcomes
    namesSeen,              \* names nextInterfaceName has returned, in order
    existing,               \* candidates found in the getAllInterfaces listing
    made,                   \* links added and children started by the call
    handle,                 \* the WireGuardInterface the call holds or returned
    seenDev,                \* what wgClient.Device answered for an existing name
    \* ---- one CIDR: its default range and a walk of incrementIP
    addrCidr,               \* the CIDR
    addrPc,                 \* "new", or "ranged" once the range is computed
    rangeStart,             \* what defaultRangeStart returned
    rangeEnd,               \* what defaultRangeEnd returned
    walkStart,              \* the address the walk started from
    walkCur,                \* the address the walk is at
    walkSteps,              \* incrementIP calls of the walk
    \* ---- the peer reconciler's two goroutines and its mutex
    mutex,                  \* peerTracker.Mutex is locked
    thread,                 \* per goroutine: where it stands, its event, its config
    evCount,                \* events the informer has delivered
    log,                    \* map steps and device calls, in order
    \* ---- the agent from configureWireGuardPeers to the end of Close
    agentCtx,               \* the context handed to Run is cancelled
    informerPc,             \* the informer goroutine: none, running, exited
    hasSynced,              \* what informer.HasSynced answers
    replayed,               \* self-links of the records of the first list
    pending,                \* notifications queued for the listener
    agentPc,                \* where Run stands
    cfgErr,                 \* what configureWireGuardPeers returned
    agentRunErr,            \* what Run returned
    agentClosePc,           \* where Agent.Close stands
    \* ---- one keepalive translation of k8sToWgctrl
    ptKeepalive,            \* peerTracker.keepalive, in seconds (0 = unset)
    KeepAliveSeconds,       \* the record's Spec.KeepAliveSeconds
    keepaliveOut            \* config.PersistentKeepaliveInterval, once made

peerVars == <<reg, peers, initialConfigApplied, device, calls, deviceTouched,
              allTranslated, lastEvent, errLog>>

findVars == <<findPool, findResult>>

ipamVars == <<ipPoolRecord, regClaims, nextUID, ipam>>

ifaceVars == <<kind, waitResult, lastUpdate, ignored, timerFired, ctxDone,
               child, exitVal, linkPresent, closePc, closedOnce, errs,
               closesReturned, lastCloseErr, linkDelCalls, signals, kills>>

runVars == <<selfRecord, endpointAddr, publicKey, psk, localPeer, runPc, runErr,
             selfUpdates>>

createVars == <<options, ifaceName, createPc, createErr, attempts, namesSeen,
                existing, made, handle, seenDev>>

addrVars == <<addrCidr, addrPc, rangeStart, rangeEnd, walkStart, walkCur,
              walkSteps>>

lockVars == <<mutex, thread, evCount, log>>

agentVars == <<agentCtx, informerPc, hasSynced, replayed, pending, agentPc,
               cfgErr, agentRunErr, agentClosePc>>

keepaliveVars == <<ptKeepalive, KeepAliveSeconds, keepaliveOut>>

otherVars == <<createVars, addrVars, lockVars, agentVars, keepaliveVars>>

vars == <<peerVars, findVars, ipamVars, ifaceVars, runVars, otherVars>>

(***************************************************************************)
(* Bounds                                                                  *)
(***************************************************************************)
NumPeers == 2

MaxRanges == 2

MaxCount == 2

MaxCalls == 3

MaxIgnored == 2

MaxCloses == 2

MaxRV == 3

\* nextInterfaceName calls of one createOrReuseWGInterface
MaxNames == 12

\* events the informer delivers
MaxEvents == 3

\* keepalive values, in seconds
MaxKeepalive == 10

(***************************************************************************)
(* Peer reconciler                                                         *)
(***************************************************************************)
LocalSelfLink == 0

RemoteSelfLinks == 1..NumPeers

SelfLinks == {LocalSelfLink} \cup RemoteSelfLinks

\* "bad" stands for any text wgtypes.ParseKey rejects.
PublicKeys == {"k1", "k2", "bad"}

\* "noresolve" stands for any text net.ResolveUDPAddr rejects.
Endpoints == {"e1"}

KeepAlives == {0}

ResourceVersions == {1, 2}

NoPeer == [absent |-> TRUE]

\* lastEvent when the latest step was no informer handler
NoDelivery == [what |-> "none", link |-> LocalSelfLink]

WireGuardPeer ==
    [selfLink : SelfLinks, rv : ResourceVersions,
     pk : PublicKeys, ep : Endpoints, ka : KeepAlives]

\* peerTracker.keepalive, the locally configured maximum (0 = unset).
trackerKeepalive == 0

\* k8sToWgctrl capping nothing.
PersistentKeepaliveIntervalNoCap(max, seconds) ==
    IF seconds > 0 THEN seconds ELSE 0

\* k8sToWgctrl, the keepalive: config.PersistentKeepaliveInterval in seconds
\* for a peer advertising seconds under the local maximum max; 0 stands for
\* the nil pointer (the field is set only to a value > 0).
PersistentKeepaliveInterval(max, seconds) ==
    IF seconds > 0
    THEN IF max > 0 /\ max < seconds THEN max ELSE seconds
    ELSE 0

\* k8sToWgctrl: the driver peer-config of a record, or an error.
k8sToWgctrl(wgPeer) ==
    IF wgPeer.pk = "bad" THEN [err |-> "InvalidPublicKey"]
    ELSE IF wgPeer.ep = "noresolve" THEN [err |-> "EndpointUnresolvable"]
    ELSE [err |-> "nil",
          PublicKey |-> wgPeer.pk,
          Endpoint |-> wgPeer.ep,
          Keepalive |-> PersistentKeepaliveInterval(trackerKeepalive, wgPeer.ka),
          Remove |-> FALSE,
          Origin |-> wgPeer.selfLink]   \* the record the entry was built from

\* One entry of a wgtypes.Config applied to the device's peer set.
ApplyPeer(dev, p) ==
    LET others == {d \in dev : d.PublicKey # p.PublicKey}
    IN IF p.Remove THEN others
       ELSE others \cup {[PublicKey |-> p.PublicKey, Endpoint |-> p.Endpoint,
                          Keepalive |-> p.Keepalive]}

RECURSIVE ApplyPeers(_, _)
ApplyPeers(dev, ps) ==
    IF ps = <<>> THEN dev ELSE ApplyPeers(ApplyPeer(dev, Head(ps)), Tail(ps))

\* wgctrl.Client.ConfigureDevice, as far as the peer list goes.
ConfigureDevice(dev, cfg) ==
    ApplyPeers(IF cfg.ReplacePeers THEN {} ELSE dev, cfg.Peers)

\* All orders in which a Go map iteration may visit the keys in S.
RECURSIVE Orders(_)
Orders(S) ==
    IF S = {} THEN {<<>>}
    ELSE UNION {{<<x>> \o o : o \in Orders(S \ {x})} : x \in S}

RECURSIVE Translations(_, _)
Translations(ps, ord) ==
    IF ord = <<>> THEN <<>>
    ELSE LET t == k8sToWgctrl(ps[Head(ord)])
         IN (IF t.err = "nil" THEN <<t>> ELSE <<>>) \o Translations(ps, Tail(ord))

Known(ps) == {l \in DOMAIN ps : ps[l] # NoPeer}

\* applyUpdate without the initial-sync barrier.
applyUpdateNoBarrier(wgPeer) ==
    LET name == wgPeer.selfLink
        t == k8sToWgctrl(wgPeer)
    IN IF peers[name] # NoPeer /\ peers[name] = wgPeer
       THEN /\ calls' = <<>>
            /\ errLog' = "nil"
            /\ UNCHANGED <<peers, device, deviceTouched>>
       ELSE /\ peers' = [peers EXCEPT ![name] = wgPeer]
            /\ IF t.err # "nil"
               THEN /\ calls' = <<>>
                    /\ errLog' = t.err
                    /\ UNCHANGED <<device, deviceTouched>>
               ELSE LET cfg == [ReplacePeers |-> FALSE, Peers |-> <<t>>]
                    IN /\ calls' = <<cfg>>
                       /\ errLog' = "nil"
                       /\ device' = ConfigureDevice(device, cfg)
                       /\ deviceTouched' = TRUE

\* applyUpdate translating the record before it is stored.
applyUpdateTranslateFirst(wgPeer) ==
    LET name == wgPeer.selfLink
        t == k8sToWgctrl(wgPeer)
    IN IF peers[name] # NoPeer /\ peers[name] = wgPeer
       THEN /\ calls' = <<>>
            /\ errLog' = "nil"
            /\ UNCHANGED <<peers, device, deviceTouched>>
       ELSE IF ~initialConfigApplied
       THEN /\ peers' = [peers EXCEPT ![name] = wgPeer]
            /\ calls' = <<>>
            /\ errLog' = "nil"
            /\ UNCHANGED <<device, deviceTouched>>
       ELSE IF t.err # "nil"
       THEN /\ calls' = <<>>
            /\ errLog' = t.err
            /\ UNCHANGED <<peers, device, deviceTouched>>
       ELSE LET cfg == [ReplacePeers |-> FALSE, Peers |-> <<t>>]
            IN /\ peers' = [peers EXCEPT ![name] = wgPeer]
               /\ calls' = <<cfg>>
               /\ errLog' = "nil"
               /\ device' = ConfigureDevice(device, cfg)
               /\ deviceTouched' = TRUE

\* peerTracker.applyUpdate
applyUpdate(wgPeer) ==
    LET name == wgPeer.selfLink
        t == k8sToWgctrl(wgPeer)
    IN IF peers[name] # NoPeer /\ peers[name] = wgPeer
       THEN /\ calls' = <<>>
            /\ errLog' = "nil"
            /\ UNCHANGED <<peers, device, deviceTouched>>
       ELSE /\ peers' = [peers EXCEPT ![name] = wgPeer]
            /\ IF ~initialConfigApplied \/ t.err # "nil"
               THEN /\ calls' = <<>>
                    /\ errLog' = IF initialConfigApplied THEN t.err ELSE "nil"
                    /\ UNCHANGED <<device, deviceTouched>>
               ELSE LET cfg == [ReplacePeers |-> FALSE, Peers |-> <<t>>]
                    IN /\ calls' = <<cfg>>
                       /\ errLog' = "nil"
                       /\ device' = ConfigureDevice(device, cfg)
                       /\ deviceTouched' = TRUE

\* deletePeer sending the stored peer without the remove flag.
deletePeerNoRemove(wgPeer) ==
    LET name == wgPeer.selfLink
        current == peers[name]
    IN IF current = NoPeer
       THEN /\ calls' = <<>>
            /\ errLog' = "nil"
            /\ UNCHANGED <<peers, device, deviceTouched>>
       ELSE IF ~initialConfigApplied
       THEN /\ peers' = [peers EXCEPT ![name] = NoPeer]
            /\ calls' = <<>>
            /\ errLog' = "nil"
            /\ UNCHANGED <<device, deviceTouched>>
       ELSE LET t == k8sToWgctrl(current)
            IN IF t.err # "nil"
               THEN /\ calls' = <<>>
                    /\ errLog' = t.err
                    /\ UNCHANGED <<peers, device, deviceTouched>>
               ELSE LET cfg == [ReplacePeers |-> FALSE,
                                Peers |-> <<t>>]
                    IN /\ calls' = <<cfg>>
                       /\ errLog' = "nil"
                       /\ device' = ConfigureDevice(device, cfg)
                       /\ deviceTouched' = TRUE
                       /\ UNCHANGED peers

\* peerTracker.deletePeer
deletePeer(wgPeer) ==
    LET name == wgPeer.selfLink
        current == peers[name]
    IN IF current = NoPeer
       THEN /\ calls' = <<>>
            /\ errLog' = "nil"
            /\ UNCHANGED <<peers, device, deviceTouched>>
       ELSE IF ~initialConfigApplied
       THEN /\ peers' = [peers EXCEPT ![name] = NoPeer]
            /\ calls' = <<>>
            /\ errLog' = "nil"
            /\ UNCHANGED <<device, deviceTouched>>
       ELSE LET t == k8sToWgctrl(current)
            IN IF t.err # "nil"
               THEN /\ calls' = <<>>
                    /\ errLog' = t.err
                    /\ UNCHANGED <<peers, device, deviceTouched>>
               ELSE LET cfg == [ReplacePeers |-> FALSE,
                                Peers |-> <<[t EXCEPT !.Remove = TRUE]>>]
                    IN /\ calls' = <<cfg>>
                       /\ errLog' = "nil"
                       /\ device' = ConfigureDevice(device, cfg)
                       /\ deviceTouched' = TRUE
                       /\ UNCHANGED peers

\* applyInitialConfig giving up at the first peer that does not translate.
applyInitialConfigFailFast ==
    /\ ~initialConfigApplied
    /\ initialConfigApplied' = TRUE
    /\ \E ord \in Orders(Known(peers)) :
          LET cfg == [ReplacePeers |-> TRUE, Peers |-> Translations(peers, ord)]
          IN IF Len(cfg.Peers) < Len(ord)
             THEN calls' = <<>> /\ UNCHANGED device
             ELSE /\ calls' = <<cfg>>
                  /\ device' = ConfigureDevice(device, cfg)
    /\ deviceTouched' = TRUE
    /\ lastEvent' = NoDelivery
    /\ errLog' = "nil"
    /\ UNCHANGED <<reg, peers, allTranslated, findVars, ipamVars, ifaceVars, runVars, otherVars>>

\* peerTracker.applyInitialConfig, called once after the cache has synced.
applyInitialConfig ==
    /\ ~initialConfigApplied
    /\ initialConfigApplied' = TRUE
    /\ \E ord \in Orders(Known(peers)) :
          LET cfg == [ReplacePeers |-> TRUE, Peers |-> Translations(peers, ord)]
          IN /\ calls' = <<cfg>>
             /\ device' = ConfigureDevice(device, cfg)
    /\ deviceTouched' = TRUE
    /\ lastEvent' = NoDelivery
    /\ errLog' = "nil"
    /\ UNCHANGED <<reg, peers, allTranslated, findVars, ipamVars, ifaceVars, runVars, otherVars>>

\* OnAdd without the comparison against the local self-link.
OnAddNoSelfFilter ==
    \E wgPeer \in WireGuardPeer :
        /\ reg[wgPeer.selfLink] = NoPeer
        /\ reg' = [reg EXCEPT ![wgPeer.selfLink] = wgPeer]
        /\ lastEvent' = [what |-> "add", link |-> wgPeer.selfLink]
        /\ applyUpdate(wgPeer)
        /\ allTranslated' = (allTranslated /\ k8sToWgctrl(wgPeer).err = "nil")
        /\ UNCHANGED <<initialConfigApplied, findVars, ipamVars, ifaceVars, runVars, otherVars>>

\* peerTracker.OnAdd: the informer reports a record it did not hold.
OnAdd ==
    \E wgPeer \in WireGuardPeer :
        /\ reg[wgPeer.selfLink] = NoPeer
        /\ reg' = [reg EXCEPT ![wgPeer.selfLink] = wgPeer]
        /\ lastEvent' = [what |-> "add", link |-> wgPeer.selfLink]
        /\ IF wgPeer.selfLink = LocalSelfLink
           THEN /\ calls' = <<>>
                /\ errLog' = "nil"
                /\ UNCHANGED <<peers, device, deviceTouched, allTranslated>>
           ELSE /\ applyUpdate(wgPeer)
                /\ allTranslated' = (allTranslated /\ k8sToWgctrl(wgPeer).err = "nil")
        /\ UNCHANGED <<initialConfigApplied, findVars, ipamVars, ifaceVars, runVars, otherVars>>

\* peerTracker.OnUpdate: the informer reports a new version (or a resync)
\* of a record it holds.
OnUpdate ==
    \E wgPeer \in WireGuardPeer :
        /\ reg[wgPeer.selfLink] # NoPeer
        /\ reg' = [reg EXCEPT ![wgPeer.selfLink] = wgPeer]
        /\ lastEvent' = [what |-> "update", link |-> wgPeer.selfLink]
        /\ IF wgPeer.selfLink = LocalSelfLink
           THEN /\ calls' = <<>>
                /\ errLog' = "nil"
                /\ UNCHANGED <<peers, device, deviceTouched, allTranslated>>
           ELSE /\ applyUpdate(wgPeer)
                /\ allTranslated' = (allTranslated /\ k8sToWgctrl(wgPeer).err = "nil")
        /\ UNCHANGED <<initialConfigApplied, findVars, ipamVars, ifaceVars, runVars, otherVars>>

\* peerTracker.OnDelete: the informer reports the removal of a record,
\* handing over its last known state.
OnDelete ==
    \E l \in SelfLinks :
        /\ reg[l] # NoPeer
        /\ reg' = [reg EXCEPT ![l] = NoPeer]
        /\ lastEvent' = [what |-> "delete", link |-> l]
        /\ IF l = LocalSelfLink
           THEN /\ calls' = <<>>
                /\ errLog' = "nil"
                /\ UNCHANGED <<peers, device, deviceTouched>>
           ELSE deletePeer(reg[l])
        /\ UNCHANGED <<initialConfigApplied, allTranslated, findVars, ipamVars, ifaceVars, runVars, otherVars>>

PeerInit ==
    /\ reg = [l \in SelfLinks |-> NoPeer]
    /\ peers = [l \in SelfLinks |-> NoPeer]
    /\ initialConfigApplied = FALSE
    /\ device = {}
    /\ calls = <<>>
    /\ deviceTouched = FALSE
    /\ allTranslated = TRUE
    /\ lastEvent = NoDelivery
    /\ errLog = "nil"

PeerNext ==
    \/ OnAdd
    \/ OnUpdate
    \/ OnDelete
    \/ applyInitialConfig


(***************************************************************************)
(* Address arithmetic (pkg/agent/ipam.go).  A net.IP is a sequence of 4 or *)
(* 16 bytes, a net.IPMask a sequence of bytes, a net.IPNet a record of     *)
(* both.  Nil is the Go nil slice/pointer.                                 *)
(***************************************************************************)
Nil == <<>>

IPv4len == 4

IPv6len == 16

RECURSIVE bitsAnd(_, _, _)
bitsAnd(a, b, n) ==
    IF n = 0 THEN 0
    ELSE 2 * bitsAnd(a \div 2, b \div 2, n - 1) + ((a % 2) * (b % 2))

RECURSIVE bitsOr(_, _, _)
bitsOr(a, b, n) ==
    IF n = 0 THEN 0
    ELSE 2 * bitsOr(a \div 2, b \div 2, n - 1)
         + (IF (a % 2) + (b % 2) > 0 THEN 1 ELSE 0)

\* a & b and a | b on bytes, tabulated.
byteAnd == [a \in 0..255 |-> [b \in 0..255 |-> bitsAnd(a, b, 8)]]

byteOr == [a \in 0..255 |-> [b \in 0..255 |-> bitsOr(a, b, 8)]]

RECURSIVE pow2(_)
pow2(n) == IF n = 0 THEN 1 ELSE 2 * pow2(n - 1)

\* net.CIDRMask(ones, bits)
CIDRMask(ones, bits) ==
    [i \in 1..(bits \div 8) |->
        IF ones >= 8 * i THEN 255
        ELSE IF ones <= 8 * (i - 1) THEN 0
        ELSE 256 - pow2(8 * i - ones)]

\* net.IPMask.Size: the number of leading ones (masks here are CIDR masks).
RECURSIVE byteOnes(_)
byteOnes(m) == IF m < 128 THEN 0 ELSE 1 + byteOnes((2 * m) % 256)

leadingOnes == [m \in 0..255 |-> byteOnes(m)]

RECURSIVE maskOnes(_)
maskOnes(mask) ==
    IF mask = <<>> THEN 0 ELSE leadingOnes[Head(mask)] + maskOnes(Tail(mask))

v4InV6Prefix == <<0, 0, 0, 0, 0, 0, 0, 0, 0, 0, 255, 255>>

\* net.IP.To4
To4(ip) ==
    IF Len(ip) = IPv4len THEN ip
    ELSE IF Len(ip) = IPv6len /\ SubSeq(ip, 1, 12) = v4InV6Prefix
         THEN SubSeq(ip, 13, 16)
    ELSE Nil

\* net.IP.To16
To16(ip) ==
    IF Len(ip) = IPv4len THEN v4InV6Prefix \o ip
    ELSE IF Len(ip) = IPv6len THEN ip
    ELSE Nil

\* net.IP.Equal
IPEqual(a, b) ==
    IF Len(a) = Len(b) THEN a = b
    ELSE IF Len(a) = IPv4len /\ Len(b) = IPv6len THEN To16(a) = b
    ELSE IF Len(a) = IPv6len /\ Len(b) = IPv4len THEN a = To16(b)
    ELSE FALSE

byteSliceAnd(a, b) ==
    IF Len(a) # Len(b) THEN [err |-> "DifferentLengths"]
    ELSE [err |-> "nil", out |-> [i \in 1..Len(a) |-> byteAnd[a[i]][b[i]]]]

byteSliceOr(a, b) ==
    IF Len(a) # Len(b) THEN [err |-> "DifferentLengths"]
    ELSE [err |-> "nil", out |-> [i \in 1..Len(a) |-> byteOr[a[i]][b[i]]]]

byteSliceNot(a) == [i \in 1..Len(a) |-> 255 - a[i]]

\* net.IPNet.Contains
Contains(cidr, ip) ==
    LET x == IF To4(ip) # Nil THEN To4(ip) ELSE ip
        n == IF To4(cidr.IP) # Nil THEN To4(cidr.IP) ELSE cidr.IP
        m == IF Len(cidr.Mask) = IPv6len /\ Len(n) = IPv4len
             THEN SubSeq(cidr.Mask, 13, 16) ELSE cidr.Mask
    IN /\ Len(n) = Len(m)
       /\ Len(x) = Len(n)
       /\ \A i \in 1..Len(x) : byteAnd[x[i]][m[i]] = byteAnd[n[i]][m[i]]

\* canonicalIPInCIDR
canonicalIPInCIDR(in) ==
    LET bits == maskOnes(in.Mask)
        size == 8 * Len(in.Mask)
    IN IF size = IPv4len * 8
       THEN IF To4(in.IP) = Nil THEN [err |-> "MixedAddressFamily"]
            ELSE [err |-> "nil", IP |-> To4(in.IP), Mask |-> in.Mask]
       ELSE IF size = IPv6len * 8
       THEN IF To4(in.IP) # Nil
            THEN IF bits < 96 THEN [err |-> "MixedAddressFamily"]
                 ELSE [err |-> "nil", IP |-> To4(in.IP),
                       Mask |-> CIDRMask(bits - 96, IPv4len * 8)]
            ELSE IF To16(in.IP) = Nil THEN [err |-> "InvalidNetwork"]
            ELSE [err |-> "nil", IP |-> To16(in.IP), Mask |-> in.Mask]
       ELSE [err |-> "InvalidMask"]

\* byteSliceIncrement: b[last]++ and, on overflow, the same for b[:last-1]
\* unless last = 1.  The slice is modified in place; the result is the
\* whole slice.  (A one-byte slice that overflows would slice b[:-1]; the
\* lengths met here, 4 and 16, never get there.)
RECURSIVE byteSliceIncrement(_)
byteSliceIncrement(b) ==
    LET n == Len(b)
        last == n - 1
        v == (b[n] + 1) % 256
        b1 == [b EXCEPT ![n] = v]
    IN IF v = 0 /\ last # 1 /\ last >= 1
       THEN byteSliceIncrement(SubSeq(b1, 1, last - 1)) \o SubSeq(b1, last, n)
       ELSE b1

\* incrementIP
incrementIP(in0) ==
    LET in == canonicalIPInCIDR(in0)
    IN IF in.err # "nil" THEN in
       ELSE LET ip == byteSliceIncrement(in.IP)
                netAddr == byteSliceAnd(in.IP, in.Mask)
                notMask == byteSliceNot(in.Mask)
                sig == byteSliceAnd(ip, notMask)
            IN IF netAddr.err # "nil" THEN netAddr
               ELSE IF sig.err # "nil" THEN sig
               ELSE [err |-> "nil", IP |-> byteSliceOr(sig.out, netAddr.out).out,
                     Mask |-> in.Mask]

RECURSIVE lexGreater(_, _, _)
lexGreater(orEqual, a, b) ==
    IF a = <<>> THEN orEqual
    ELSE IF Head(a) = Head(b) THEN lexGreater(orEqual, Tail(a), Tail(b))
    ELSE Head(a) > Head(b)

\* ipGreater: a > b (or a >= b when orEqual)
ipGreater(orEqual, a, b) ==
    LET a1 == IF Len(a) # Len(b) THEN To16(a) ELSE a
        b1 == IF Len(a) # Len(b) THEN To16(b) ELSE b
    IN IF Len(a1) # Len(b1) THEN [err |-> "IncomparableLengths"]
       ELSE [err |-> "nil", out |-> lexGreater(orEqual, a1, b1)]

\* ipLess
ipLess(orEqual, a, b) == ipGreater(orEqual, b, a)

\* defaultRangeEnd without the reservation of the broadcast address.
defaultRangeEndNoReserve(cidr0) ==
    LET cidr == canonicalIPInCIDR(cidr0)
    IN IF cidr.err # "nil" THEN cidr
       ELSE [err |-> "nil",
             IP |-> byteSliceOr(byteSliceNot(cidr.Mask), cidr.IP).out]

\* defaultRangeEnd
defaultRangeEnd(cidr0) ==
    LET cidr == canonicalIPInCIDR(cidr0)
    IN IF cidr.err # "nil" THEN cidr
       ELSE LET ones == maskOnes(cidr.Mask)
                bits == 8 * Len(cidr.Mask)
                out == byteSliceOr(byteSliceNot(cidr.Mask), cidr.IP).out
                n == Len(out)
            IN [err |-> "nil",
                IP |-> IF bits = IPv4len * 8 /\ ones < 31
                       THEN [out EXCEPT ![n] = (out[n] + 255) % 256]
                       ELSE out]

\* defaultRangeStart
defaultRangeStart(cidr0) ==
    LET cidr == canonicalIPInCIDR(cidr0)
    IN IF cidr.err # "nil" THEN cidr
       ELSE LET ones == maskOnes(cidr.Mask)
                bits == 8 * Len(cidr.Mask)
                n == Len(cidr.IP)
            IN [err |-> "nil",
                IP |-> IF bits = IPv4len * 8 /\ ones < 31
                       THEN [cidr.IP EXCEPT ![n] = (cidr.IP[n] + 1) % 256]
                       ELSE cidr.IP]

\* The byte strings x with x & notMask = x, i.e. every value of
\* byteSliceAnd(notMask, randAddr) over the random randAddr.
RECURSIVE hostParts(_)
hostParts(notMask) ==
    IF notMask = <<>> THEN {<<>>}
    ELSE LET h == {v \in 0..Head(notMask) : byteAnd[v][Head(notMask)] = v}
         IN UNION {{<<v>> \o t : t \in hostParts(Tail(notMask))} : v \in h}

\* randomInCIDR: every address crypto/rand may produce.
randomInCIDR(cidr0) ==
    LET cidr == canonicalIPInCIDR(cidr0)
    IN IF cidr.err # "nil" THEN {cidr}
       ELSE {[err |-> "nil", IP |-> byteSliceOr(h, cidr.IP).out, Mask |-> cidr.Mask] :
                h \in hostParts(byteSliceNot(cidr.Mask))}

\* strconv-style decimal text of a byte, one character per element.
RECURSIVE decimal(_)
decimal(n) ==
    LET d == <<"0", "1", "2", "3", "4", "5", "6", "7", "8", "9">>
    IN IF n < 10 THEN <<d[n + 1]>> ELSE decimal(n \div 10) \o <<d[(n % 10) + 1]>>

\* net.IP.String for IPv4 (and IPv4-in-IPv6) addresses: dotted decimal.
IPString(ip) ==
    LET x == To4(ip)
    IN IF x = Nil THEN <<"?">>
       ELSE decimal(x[1]) \o <<".">> \o decimal(x[2]) \o <<".">>
            \o decimal(x[3]) \o <<".">> \o decimal(x[4])

\* claimIPRegexp.ReplaceAllString(strings.ToLower(ip), "-")
claimIPReplace(text) ==
    [i \in 1..Len(text) |->
        IF text[i] \in {"a", "b", "c", "d", "e", "f",
                        "0", "1", "2", "3", "4", "5", "6", "7", "8", "9"}
        THEN text[i] ELSE "-"]

\* claimName
claimName(pool, ip) == <<pool, "-">> \o claimIPReplace(ip)

(***************************************************************************)
(* IPAM (pkg/agent/ipam.go).  Address texts of registry objects are kept   *)
(* by what the parsers make of them: an "ip" text is accepted by           *)
(* net.ParseIP only, a "cidr" text by net.ParseCIDR only, the empty text   *)
(* by neither.                                                             *)
(***************************************************************************)
IPText(ip) == [kind |-> "ip", ip |-> ip]

CIDRText(ip, ones) == [kind |-> "cidr", ip |-> ip, ones |-> ones]

EmptyText == [kind |-> "empty"]

\* net.ParseIP: the 16-byte form, or nil.
ParseIP(t) == IF t.kind = "ip" THEN To16(t.ip) ELSE Nil

\* net.ParseCIDR: the address and the network it lies in.
ParseCIDR(t) ==
    IF t.kind # "cidr" THEN [err |-> "InvalidCIDR"]
    ELSE LET mask == CIDRMask(t.ones, IPv4len * 8)
         IN [err |-> "nil", ip |-> To16(t.ip),
             net |-> [IP |-> byteSliceAnd(To4(t.ip), mask).out, Mask |-> mask]]

\* The value an error message quotes (%q), if it quotes one.
ErrValue(e) == IF "value" \in DOMAIN e THEN e.value ELSE EmptyText

\* loadPool, the loop over poolRecord.Spec.IPRanges in shuffled order.
RECURSIVE loadRanges(_, _)
loadRanges(ipRanges, rangeIndexes) ==
    IF rangeIndexes = <<>> THEN [err |-> "nil", ranges |-> <<>>]
    ELSE
      LET ipr == ipRanges[Head(rangeIndexes)]
          c == ParseCIDR(ipr.CIDR)
      IN IF c.err # "nil" THEN [err |-> "parsing ipv4.cidr", value |-> ipr.CIDR]
         ELSE
           LET cidr == c.net
               start == IF ipr.Start # EmptyText
                        THEN IF ParseIP(ipr.Start) = Nil
                             THEN [err |-> "parsing ipv4.start", value |-> ipr.Start]
                             ELSE IF ~Contains(cidr, ParseIP(ipr.Start))
                             THEN [err |-> "ipv4.start was not contained by cidr",
                                   value |-> ipr.Start]
                             ELSE [err |-> "nil", IP |-> ParseIP(ipr.Start)]
                        ELSE defaultRangeStart(cidr)
               end == IF ipr.End # EmptyText
                      THEN IF ParseIP(ipr.End) = Nil
                           THEN [err |-> "parsing ipv4.end", value |-> ipr.End]
                           ELSE IF ~Contains(cidr, ParseIP(ipr.End))
                           THEN [err |-> "ipv4.end was not contained by cidr",
                                 value |-> ipr.End]
                           ELSE [err |-> "nil", IP |-> ParseIP(ipr.End)]
                      ELSE defaultRangeEnd(cidr)
               rest == loadRanges(ipRanges, Tail(rangeIndexes))
           IN IF start.err # "nil" THEN [err |-> start.err, value |-> ErrValue(start)]
              ELSE IF end.err # "nil" THEN [err |-> end.err, value |-> ErrValue(end)]
              ELSE IF rest.err # "nil" THEN rest
              ELSE [err |-> "nil",
                    ranges |-> <<[cidr |-> cidr, start |-> start.IP, end |-> end.IP]>>
                               \o rest.ranges]

\* loadReserved passing over the entries that do not parse.
RECURSIVE loadReservedSkipInvalid(_)
loadReservedSkipInvalid(reserved) ==
    IF reserved = <<>> THEN [err |-> "nil", inUse |-> {}]
    ELSE LET ip == ParseIP(Head(reserved))
             rest == loadReservedSkipInvalid(Tail(reserved))
         IN IF ip = Nil THEN rest
            ELSE IF rest.err # "nil" THEN rest
            ELSE [err |-> "nil", inUse |-> {IPString(ip)} \cup rest.inUse]

\* loadPool, the loop over poolRecord.Spec.Reserved.
RECURSIVE loadReserved(_)
loadReserved(reserved) ==
    IF reserved = <<>> THEN [err |-> "nil", inUse |-> {}]
    ELSE LET ip == ParseIP(Head(reserved))
             rest == loadReserved(Tail(reserved))
         IN IF ip = Nil THEN [err |-> "parsing reserved ip", value |-> Head(reserved)]
            ELSE IF rest.err # "nil" THEN rest
            ELSE [err |-> "nil", inUse |-> {IPString(ip)} \cup rest.inUse]

\* loadClaims counting only the owner's claims as in use.
RECURSIVE loadClaimsOwnOnly(_, _)
loadClaimsOwnOnly(items, owner) ==
    IF items = <<>> THEN [err |-> "nil", inUse |-> {}, ourClaims |-> <<>>]
    ELSE LET claim == Head(items)
             reserved == ParseIP(claim.ip)
             rest == loadClaimsOwnOnly(Tail(items), owner)
         IN IF reserved = Nil THEN [err |-> "parsing claim", value |-> claim.ip]
            ELSE IF rest.err # "nil" THEN rest
            ELSE [err |-> "nil",
                  inUse |-> (IF owner \in claim.owners THEN {IPString(reserved)}
                             ELSE {}) \cup rest.inUse,
                  ourClaims |-> (IF owner \in claim.owners THEN <<claim>> ELSE <<>>)
                                \o rest.ourClaims]

\* loadPool, the loop over the listed claims.
RECURSIVE loadClaims(_, _)
loadClaims(items, owner) ==
    IF items = <<>> THEN [err |-> "nil", inUse |-> {}, ourClaims |-> <<>>]
    ELSE LET claim == Head(items)
             reserved == ParseIP(claim.ip)
             rest == loadClaims(Tail(items), owner)
         IN IF reserved = Nil THEN [err |-> "parsing claim", value |-> claim.ip]
            ELSE IF rest.err # "nil" THEN rest
            ELSE [err |-> "nil",
                  inUse |-> {IPString(reserved)} \cup rest.inUse,
                  ourClaims |-> (IF owner \in claim.owners THEN <<claim>> ELSE <<>>)
                                \o rest.ourClaims]

\* registryIPAM.loadPool: rangeIndexes is the permutation randPerm drew,
\* items the claim objects as List returned them.
loadPool(poolRecord, items, owner, rangeIndexes) ==
    LET r == loadRanges(poolRecord.ipRanges, rangeIndexes)
        v == loadReserved(poolRecord.reserved)
        c == loadClaims(items, owner)
    IN IF r.err # "nil" THEN [err |-> r.err, value |-> ErrValue(r)]
       ELSE IF v.err # "nil" THEN [err |-> v.err, value |-> ErrValue(v)]
       ELSE IF c.err # "nil" THEN [err |-> c.err, value |-> ErrValue(c)]
       ELSE [err |-> "nil",
             pool |-> [inUse |-> v.inUse \cup c.inUse, ranges |-> r.ranges],
             ourClaims |-> c.ourClaims]

\* ipPool.findAddress, the inner loop over one range: currentAddr is Nil on
\* the first pass.
RECURSIVE scanRange(_, _, _, _)
scanRange(r, inUse, firstTry, currentAddr) ==
    \* next is bound as the element of a set, which computes it once
    CHOOSE out \in
      {IF next.err # "nil" THEN next
       ELSE IF currentAddr # Nil /\ IPEqual(next.IP, firstTry.IP)
       THEN [err |-> "next range"]
       ELSE LET isBeforeStart == ipGreater(FALSE, next.IP, r.start)
                isAfterEnd == ipLess(FALSE, next.IP, r.start)
            IN IF isBeforeStart.err # "nil" THEN isBeforeStart
               ELSE IF isBeforeStart.out THEN scanRange(r, inUse, firstTry, next)
               ELSE IF isAfterEnd.err # "nil" THEN isAfterEnd
               ELSE IF isAfterEnd.out THEN scanRange(r, inUse, firstTry, next)
               ELSE IF IPString(next.IP) \in inUse
               THEN scanRange(r, inUse, firstTry, next)
               ELSE next :
          next \in {IF currentAddr = Nil THEN firstTry
                    ELSE incrementIP(currentAddr)}} : TRUE

\* ipPool.findAddress: firstTries[i] is the address randomInCIDR drew for
\* the i-th range.
RECURSIVE findAddressFrom(_, _, _)
findAddressFrom(p, firstTries, i) ==
    IF i > Len(p.ranges) THEN [err |-> "no available IP addresses"]
    ELSE IF firstTries[i].err # "nil" THEN firstTries[i]
    ELSE LET got == scanRange(p.ranges[i], p.inUse, firstTries[i], Nil)
         IN IF got.err = "next range" THEN findAddressFrom(p, firstTries, i + 1)
            ELSE got

findAddress(p, firstTries) == findAddressFrom(p, firstTries, 1)

\* The draws randomInCIDR may make for the ranges of a pool, one per range.
RECURSIVE FirstTries(_)
FirstTries(ranges) ==
    IF ranges = <<>> THEN {<<>>}
    ELSE {<<f>> \o t : f \in randomInCIDR(Head(ranges).cidr),
                       t \in FirstTries(Tail(ranges))}

(***************************************************************************)
(* findAddress on the pools loadPool can build                             *)
(***************************************************************************)
A(n) == <<10, 0, 0, n>>

B(n) == <<10, 0, 1, n>>

\* IPRange objects: 10.0.0.0/30 with start and end each left empty (the
\* defaults are .1 and .2) or set, and 10.0.1.0/31 with the defaults.
IPRangeRecords ==
    {[CIDR |-> CIDRText(A(0), 30), Start |-> s, End |-> e] :
        s \in {EmptyText, IPText(A(2))}, e \in {EmptyText, IPText(A(1))}}
        \cup {[CIDR |-> CIDRText(B(0), 31), Start |-> EmptyText, End |-> EmptyText]}

RECURSIVE SeqsUpTo(_, _)
SeqsUpTo(S, n) ==
    IF n = 0 THEN {<<>>}
    ELSE LET shorter == SeqsUpTo(S, n - 1)
         IN shorter \cup {<<x>> \o q : x \in S, q \in {t \in shorter : Len(t) = n - 1}}

ReservedLists ==
    {<<>>, <<IPText(A(1))>>, <<IPText(A(2))>>, <<IPText(B(0))>>,
     <<IPText(A(1)), IPText(A(2))>>, <<IPText(A(1)), IPText(B(0))>>,
     <<IPText(A(2)), IPText(A(3))>>,
     <<IPText(A(1)), IPText(A(2)), IPText(B(0)), IPText(B(1))>>}

FindPoolRecords ==
    {[ipRanges |-> rs, reserved |-> v] :
        rs \in SeqsUpTo(IPRangeRecords, MaxRanges) \ {<<>>}, v \in ReservedLists}

NotYet == [err |-> "not called"]

FindInit ==
    /\ \E rec \in FindPoolRecords :
          \E ord \in Orders(1..Len(rec.ipRanges)) :
              LET l == loadPool(rec, <<>>, "a", ord)
              IN /\ l.err = "nil"
                 /\ findPool = l.pool
    /\ findResult = NotYet

\* p.findAddress() on the loaded pool.
findAddressCall ==
    /\ findResult = NotYet
    /\ \E ft \in FirstTries(findPool.ranges) :
          findResult' = findAddress(findPool, ft)
    /\ UNCHANGED <<findPool, peerVars, ipamVars, ifaceVars, runVars, otherVars>>

FindNext == findAddressCall

(***************************************************************************)
(* registryIPAM.ClaimIPs against a shared registry.  Each agent runs its   *)
(* calls one after the other; the calls of different agents interleave at  *)
(* the registry requests (Get+List of loadPool, Delete, Create).           *)
(***************************************************************************)
Agents == {"a", "b"}

poolName == "pool"

\* An IPPool object of one range over 10.0.0.0/30.
OneRange(cidr, start, end, reserved) ==
    [ipRanges |-> <<[CIDR |-> cidr, Start |-> start, End |-> end]>>,
     reserved |-> reserved]

\* IPPool objects loadPool rejects: a CIDR, a start, an end or a reserved
\* address that does not parse, a start or an end outside the CIDR.
RejectedPoolRecords ==
    {OneRange(IPText(A(0)), EmptyText, EmptyText, <<>>),
     OneRange(CIDRText(A(0), 30), CIDRText(A(1), 30), EmptyText, <<>>),
     OneRange(CIDRText(A(0), 30), IPText(B(1)), EmptyText, <<>>),
     OneRange(CIDRText(A(0), 30), EmptyText, CIDRText(A(2), 30), <<>>),
     OneRange(CIDRText(A(0), 30), EmptyText, IPText(A(4)), <<>>),
     OneRange(CIDRText(A(0), 30), EmptyText, EmptyText,
              <<IPText(A(1)), CIDRText(A(2), 30)>>)}

\* The IPPool objects the agents allocate from: ranges with the defaults,
\* a range with its start and end set and a reserved address written as
\* ::ffff:10.0.0.1, and the rejected ones.
IPAMPoolRecords ==
    RejectedPoolRecords \cup
    {OneRange(CIDRText(A(0), 30), IPText(A(2)), IPText(A(2)),
              <<IPText(To16(A(1)))>>)} \cup
    {[ipRanges |-> <<[CIDR |-> CIDRText(A(0), 30), Start |-> EmptyText,
                      End |-> EmptyText]>>,
      reserved |-> <<>>],
     [ipRanges |-> <<[CIDR |-> CIDRText(A(0), 30), Start |-> EmptyText,
                      End |-> EmptyText],
                     [CIDR |-> CIDRText(B(0), 31), Start |-> EmptyText,
                      End |-> EmptyText]>>,
      reserved |-> <<IPText(A(1))>>]}

\* An IPClaim object: name, Spec.IP, the owner names of its
\* OwnerReferences, and its UID.
IPClaim(name, ip, owners, uid) ==
    [name |-> name, ip |-> ip, owners |-> owners, uid |-> uid]

\* The claims present before any call: none or one for 10.0.0.1 and for
\* 10.0.0.2 each, under the deterministic name; the one for 10.0.0.2 may
\* carry its address in CIDR notation.
InitialClaims ==
    {c1 \cup c2 :
        c1 \in {{}} \cup {{IPClaim(claimName(poolName, IPString(A(1))),
                                   IPText(A(1)), o, 1)} : o \in {{}, {"a"}, {"a", "b"}}},
        c2 \in {{}, {IPClaim(claimName(poolName, IPString(A(2))),
                             IPText(A(2)), {"a"}, 2)},
                     {IPClaim(claimName(poolName, IPString(A(2))),
                             CIDRText(A(2), 30), {"a"}, 2)}}}

NoCall ==
    [pc |-> "idle", call |-> 0, n |-> 0, count |-> 0,
     pool |-> [inUse |-> {}, ranges |-> <<>>], ourClaims |-> <<>>,
     claimIPs |-> <<>>, err |-> "nil", lastCreate |-> "none", got |-> {},
     errValue |-> EmptyText,     \* the value the error of loadPool quotes
     loaded |-> <<>>,    \* ourClaims as loadPool returned it
     lastDelete |-> "none",
     created |-> {}]     \* UIDs of the claims this agent's calls created

IpamInit ==
    /\ ipPoolRecord \in IPAMPoolRecords
    /\ regClaims \in InitialClaims
    /\ nextUID = 3
    /\ ipam = [a \in Agents |-> NoCall]

\* return ..., err: the call is over; got collects every address a call of
\* this agent has handed back.
Return(st, claimIPs, err) ==
    [st EXCEPT !.pc = "done", !.claimIPs = claimIPs, !.err = err,
               !.got = @ \cup {IPString(claimIPs[i].IP) : i \in 1..Len(claimIPs)}]

\* The calls made so far, over all agents.
RECURSIVE CallsMade(_)
CallsMade(S) ==
    IF S = {} THEN 0
    ELSE LET a == CHOOSE x \in S : TRUE IN ipam[a].call + CallsMade(S \ {a})

\* ClaimIPs up to and including loadPool: Get of the pool, List of the
\* claims, and the local pool built from them.
ClaimIPs_loadPool(a) ==
    /\ ipam[a].pc \in {"idle", "done"}
    /\ CallsMade(Agents) < MaxCalls
    /\ \E rangeIndexes \in Orders(1..Len(ipPoolRecord.ipRanges)) :
        \E items \in Orders(regClaims) :
          \E l \in {loadPool(ipPoolRecord, items, a, rangeIndexes)} :
             \E count \in 0..MaxCount, failed \in BOOLEAN :
               LET st == [NoCall EXCEPT !.call = ipam[a].call + 1, !.n = count,
                                        !.count = count, !.got = ipam[a].got,
                                        !.created = ipam[a].created]
               IN ipam' = [ipam EXCEPT ![a] =
                      IF failed THEN Return(st, Nil, "loading pool")
                      ELSE IF l.err # "nil"
                      THEN [Return(st, Nil, l.err) EXCEPT !.errValue = l.value]
                      ELSE [st EXCEPT !.pc = IF l.ourClaims = <<>> THEN "alloc"
                                              ELSE "reuse",
                                      !.pool = l.pool, !.ourClaims = l.ourClaims,
                                      !.loaded = l.ourClaims]]
    /\ UNCHANGED <<ipPoolRecord, regClaims, nextUID, peerVars, findVars, ifaceVars, runVars, otherVars>>

\* ClaimIPs_ourClaim deleting by name alone, without the UID precondition.
ClaimIPs_ourClaimNoPrecondition(a) ==
    LET st == ipam[a]
        claim == Head(st.ourClaims)
        rest == Tail(st.ourClaims)
        on == [st EXCEPT !.ourClaims = rest,
                         !.pc = IF rest = <<>> THEN "alloc" ELSE "reuse"]
    IN /\ st.pc = "reuse"
       /\ IF st.count > 0
          THEN LET c == ParseCIDR(claim.ip)
               IN /\ ipam' = [ipam EXCEPT ![a] =
                       IF c.err # "nil" THEN Return(st, Nil, "invalid claim")
                       ELSE [on EXCEPT !.count = @ - 1,
                                       !.claimIPs = Append(@, [IP |-> c.ip,
                                                               Mask |-> c.net.Mask])]]
                  /\ UNCHANGED regClaims
          ELSE LET found == {c \in regClaims : c.name = claim.name}
               IN \/ /\ found = {}                     \* NotFound is ignored
                     /\ ipam' = [ipam EXCEPT ![a] = [on EXCEPT !.lastDelete = "NotFound"]]
                     /\ UNCHANGED regClaims
                  \/ /\ found # {}
                     /\ regClaims' = regClaims \ found
                     /\ ipam' = [ipam EXCEPT ![a] = [on EXCEPT !.lastDelete = "deleted"]]
                  \/ /\ TRUE                          \* any other failure
                     /\ ipam' = [ipam EXCEPT ![a] =
                            Return([st EXCEPT !.lastDelete = "failed"], Nil,
                                   "deleting claim")]
                     /\ UNCHANGED regClaims
       /\ UNCHANGED <<ipPoolRecord, nextUID, peerVars, findVars, ifaceVars, runVars, otherVars>>

\* One iteration of the loop over ourClaims: keep the claim while count > 0,
\* delete it otherwise.
ClaimIPs_ourClaim(a) ==
    LET st == ipam[a]
        claim == Head(st.ourClaims)
        rest == Tail(st.ourClaims)
        on == [st EXCEPT !.ourClaims = rest,
                         !.pc = IF rest = <<>> THEN "alloc" ELSE "reuse"]
    IN /\ st.pc = "reuse"
       /\ IF st.count > 0
          THEN LET c == ParseCIDR(claim.ip)
               IN /\ ipam' = [ipam EXCEPT ![a] =
                       IF c.err # "nil" THEN Return(st, Nil, "invalid claim")
                       ELSE [on EXCEPT !.count = @ - 1,
                                       !.claimIPs = Append(@, [IP |-> c.ip,
                                                               Mask |-> c.net.Mask])]]
                  /\ UNCHANGED regClaims
          ELSE LET found == {c \in regClaims : c.name = claim.name}
               IN \/ /\ found = {}                     \* NotFound is ignored
                     /\ ipam' = [ipam EXCEPT ![a] = [on EXCEPT !.lastDelete = "NotFound"]]
                     /\ UNCHANGED regClaims
                  \/ /\ \E c \in found : c.uid = claim.uid
                     /\ regClaims' = regClaims \ found
                     /\ ipam' = [ipam EXCEPT ![a] = [on EXCEPT !.lastDelete = "deleted"]]
                  \/ /\ \E c \in found : c.uid # claim.uid
                     \* the UID precondition fails: Conflict
                     /\ ipam' = [ipam EXCEPT ![a] =
                            Return([st EXCEPT !.lastDelete = "Conflict"], Nil,
                                   "deleting claim")]
                     /\ UNCHANGED regClaims
                  \/ /\ TRUE                          \* any other failure
                     /\ ipam' = [ipam EXCEPT ![a] =
                            Return([st EXCEPT !.lastDelete = "failed"], Nil,
                                   "deleting claim")]
                     /\ UNCHANGED regClaims
       /\ UNCHANGED <<ipPoolRecord, nextUID, peerVars, findVars, ifaceVars, runVars, otherVars>>

\* ClaimIPs_alloc with Create reporting success although the name is taken.
ClaimIPs_allocNoAlreadyExists(a) ==
    LET st == ipam[a]
    IN /\ st.pc = "alloc"
       /\ st.count > 0
       /\ \E ft \in FirstTries(st.pool.ranges) :
          \E addr \in {findAddress(st.pool, ft)} :
            LET name == claimName(poolName, IPString(addr.IP))
            IN IF addr.err # "nil"
               THEN /\ ipam' = [ipam EXCEPT ![a] = Return(st, st.claimIPs, addr.err)]
                    /\ UNCHANGED <<regClaims, nextUID>>
               ELSE \/ /\ regClaims' = {c \in regClaims : c.name # name}
                               \cup {IPClaim(name, EmptyText, {}, nextUID)}
                       /\ nextUID' = nextUID + 1
                       /\ ipam' = [ipam EXCEPT ![a] =
                               [st EXCEPT !.count = @ - 1,
                                          !.claimIPs = Append(@, addr),
                                          !.lastCreate = "created",
                                          !.created = @ \cup {nextUID}]]
                    \/ /\ ipam' = [ipam EXCEPT ![a] =
                               Return(st, st.claimIPs, "creating claim")]
                       /\ UNCHANGED <<regClaims, nextUID>>
       /\ UNCHANGED <<ipPoolRecord, peerVars, findVars, ifaceVars, runVars, otherVars>>

\* One iteration of "for count > 0": findAddress, then Create of the claim
\* under the name derived from the address.
ClaimIPs_alloc(a) ==
    LET st == ipam[a]
    IN /\ st.pc = "alloc"
       /\ st.count > 0
       /\ \E ft \in FirstTries(st.pool.ranges) :
          \E addr \in {findAddress(st.pool, ft)} :
            LET name == claimName(poolName, IPString(addr.IP))
            IN IF addr.err # "nil"
               THEN /\ ipam' = [ipam EXCEPT ![a] = Return(st, st.claimIPs, addr.err)]
                    /\ UNCHANGED <<regClaims, nextUID>>
               ELSE \/ /\ \E c \in regClaims : c.name = name
                       \* AlreadyExists: continue
                       /\ ipam' = [ipam EXCEPT ![a].lastCreate = "AlreadyExists"]
                       /\ UNCHANGED <<regClaims, nextUID>>
                    \/ /\ \A c \in regClaims : c.name # name
                       /\ regClaims' = regClaims
                               \cup {IPClaim(name, EmptyText, {}, nextUID)}
                       /\ nextUID' = nextUID + 1
                       /\ ipam' = [ipam EXCEPT ![a] =
                               [st EXCEPT !.count = @ - 1,
                                          !.claimIPs = Append(@, addr),
                                          !.lastCreate = "created",
                                          !.created = @ \cup {nextUID}]]
                    \/ /\ ipam' = [ipam EXCEPT ![a] =
                               Return(st, st.claimIPs, "creating claim")]
                       /\ UNCHANGED <<regClaims, nextUID>>
       /\ UNCHANGED <<ipPoolRecord, peerVars, findVars, ifaceVars, runVars, otherVars>>

\* return claimIPs, nil
ClaimIPs_return(a) ==
    /\ ipam[a].pc = "alloc"
    /\ ipam[a].count = 0
    /\ ipam' = [ipam EXCEPT ![a] = Return(ipam[a], ipam[a].claimIPs, "nil")]
    /\ UNCHANGED <<ipPoolRecord, regClaims, nextUID, peerVars, findVars, ifaceVars, runVars, otherVars>>

IpamNext ==
    \E a \in Agents :
        \/ ClaimIPs_loadPool(a)
        \/ ClaimIPs_ourClaim(a)
        \/ ClaimIPs_alloc(a)
        \/ ClaimIPs_return(a)

(***************************************************************************)
(* Interface lifecycle (pkg/interfaces): one interface, made either by the *)
(* kernel driver or by a userspace driver run as a child process.  For a   *)
(* userspace driver the model starts after cmd.Start() and cmdExit(cmd),   *)
(* at the top of waitForInterface; for the kernel driver it starts with    *)
(* the handle createWGKernelInterface returned.                            *)
(***************************************************************************)
ifName == "wg0"

\* The names link updates carry; "NilAttrs" is an update whose Attrs() is nil.
UpdateNames == {ifName, "eth0", "NilAttrs"}

\* What cmd.Wait returns: nil (status 0), an *exec.ExitError, another error.
WaitValues == {"nil", "ExitError", "other"}

\* wgUserspaceInterface.driverExit: startWGUserspaceInterface leaves the
\* field unset, so it is the nil channel; a receive from it never completes.
driverExit == Nil

IfaceInit ==
    /\ kind \in {"kernel", "userspace"}
    /\ waitResult = IF kind = "kernel" THEN "nil" ELSE "subscribe"
    /\ lastUpdate = "none"
    /\ ignored = 0
    /\ timerFired = FALSE
    /\ ctxDone = FALSE
    /\ child = IF kind = "kernel" THEN "none" ELSE "running"
    /\ exitVal = "none"
    /\ linkPresent = (kind = "kernel")
    /\ closePc = "idle"
    /\ closedOnce = FALSE
    /\ errs = <<>>
    /\ closesReturned = 0
    /\ lastCloseErr = "none"
    /\ linkDelCalls = 0
    /\ signals = 0
    /\ kills = 0

waitVars == <<waitResult, lastUpdate, ignored>>

closeVars == <<closePc, closedOnce, errs, closesReturned, lastCloseErr,
               linkDelCalls, signals, kills>>

notIface == <<peerVars, findVars, ipamVars, runVars, otherVars>>

\* ---- the surroundings of the factory and the handle

\* The userspace driver creates its link.
driver_createsLink ==
    /\ child = "running"
    /\ ~linkPresent
    /\ linkDelCalls = 0
    /\ linkPresent' = TRUE
    /\ UNCHANGED <<kind, waitVars, timerFired, ctxDone, child, exitVal,
                   closeVars, notIface>>

\* The userspace driver terminates, of its own accord or on a signal; its
\* link goes with it.
driver_exits ==
    /\ child = "running"
    /\ child' = "exited"
    /\ exitVal' \in WaitValues
    /\ linkPresent' = FALSE
    /\ UNCHANGED <<kind, waitVars, timerFired, ctxDone, closeVars, notIface>>

\* Something other than the handle removes the link.
link_removed ==
    /\ linkPresent
    /\ linkPresent' = FALSE
    /\ UNCHANGED <<kind, waitVars, timerFired, ctxDone, child, exitVal,
                   closeVars, notIface>>

\* The context of the factory call is cancelled.
ctx_cancel ==
    /\ waitResult \in {"subscribe", "pending"}
    /\ ~ctxDone
    /\ ctxDone' = TRUE
    /\ UNCHANGED <<kind, waitVars, timerFired, child, exitVal, linkPresent,
                   closeVars, notIface>>

\* interfaceTimeout elapses: the timer of waitForInterface fires.
timer_fires ==
    /\ waitResult = "pending"
    /\ ~timerFired
    /\ timerFired' = TRUE
    /\ UNCHANGED <<kind, waitVars, ctxDone, child, exitVal, linkPresent,
                   closeVars, notIface>>

\* cmdExit: cmd.Wait() returns in the goroutine, which sets cmd.ProcessState
\* and then offers the result on the exit channel.
cmdExit_Wait ==
    /\ child = "exited"
    /\ child' = "reaped"
    /\ UNCHANGED <<kind, waitVars, timerFired, ctxDone, exitVal, linkPresent,
                   closeVars, notIface>>

\* ---- waitForInterface

\* netlink.LinkSubscribeWithOptions and the creation of the timer.
waitForInterface_subscribe ==
    /\ waitResult = "subscribe"
    /\ waitResult' \in {"pending", "initializing link subscription"}
    /\ UNCHANGED <<kind, lastUpdate, ignored, timerFired, ctxDone, child,
                   exitVal, linkPresent, closeVars, notIface>>

\* case <-ctx.Done()
waitForInterface_ctxDone ==
    /\ waitResult = "pending"
    /\ ctxDone
    /\ waitResult' = "context canceled"
    /\ UNCHANGED <<kind, lastUpdate, ignored, timerFired, ctxDone, child,
                   exitVal, linkPresent, closeVars, notIface>>

\* case update := <-updates, returning a handle whatever the name.
waitForInterface_updateAnyName ==
    /\ waitResult = "pending"
    /\ \E n \in UpdateNames :
          /\ n = ifName => linkPresent
          /\ n = "eth0" => ignored < MaxIgnored
          /\ lastUpdate' = n
          /\ IF n = "NilAttrs"
             THEN /\ waitResult' = "netlink update had nil link attributes"
                  /\ UNCHANGED ignored
             ELSE /\ waitResult' = "nil"
                  /\ UNCHANGED ignored
    /\ UNCHANGED <<kind, timerFired, ctxDone, child, exitVal, linkPresent,
                   closeVars, notIface>>

\* case update := <-updates
waitForInterface_update ==
    /\ waitResult = "pending"
    /\ \E n \in UpdateNames :
          /\ n = ifName => linkPresent
          /\ n = "eth0" => ignored < MaxIgnored
          /\ lastUpdate' = n
          /\ IF n = "NilAttrs"
             THEN /\ waitResult' = "netlink update had nil link attributes"
                  /\ UNCHANGED ignored
             ELSE IF n = ifName
             THEN /\ waitResult' = "nil"
                  /\ UNCHANGED ignored
             ELSE /\ ignored' = ignored + 1          \* continue
                  /\ UNCHANGED waitResult
    /\ UNCHANGED <<kind, timerFired, ctxDone, child, exitVal, linkPresent,
                   closeVars, notIface>>

\* case err := <-exit
waitForInterface_exit ==
    /\ waitResult = "pending"
    /\ child = "reaped"
    /\ waitResult' = IF exitVal = "nil" THEN "userspace driver exited 0"
                     ELSE IF exitVal = "ExitError" THEN "userspace driver exited N"
                     ELSE "monitoring userspace driver"
    /\ UNCHANGED <<kind, lastUpdate, ignored, timerFired, ctxDone, child,
                   exitVal, linkPresent, closeVars, notIface>>

\* case <-t.C
waitForInterface_timeout ==
    /\ waitResult = "pending"
    /\ timerFired
    /\ waitResult' = "timeout"
    /\ UNCHANGED <<kind, lastUpdate, ignored, timerFired, ctxDone, child,
                   exitVal, linkPresent, closeVars, notIface>>

\* ---- Close

\* netlink.LinkDel: what it reports for a link that is there or is gone.
LinkDel(present) == IF present THEN {"nil", "failed"} ELSE {"NotExist"}

\* linuxInterface.Close: the error it makes of LinkDel's.
linuxInterface_Close(err) ==
    IF err \in {"nil", "NotExist"} THEN "nil" ELSE "deleting interface"

\* return errs[len(errs)-1], or nil
lastOf(es) == IF es = <<>> THEN "nil" ELSE es[Len(es)]

\* Close entered without regard to the once latch.
CloseNoLatch ==
    /\ waitResult = "nil"
    /\ closePc = "idle"
    /\ closesReturned < MaxCloses
    /\ \E err \in LinkDel(linkPresent) :
          /\ linkDelCalls' = linkDelCalls + 1
          /\ linkPresent' = (linkPresent /\ err # "nil")
          /\ IF kind = "kernel"
             THEN /\ closesReturned' = closesReturned + 1
                  /\ lastCloseErr' = linuxInterface_Close(err)
                  /\ UNCHANGED <<closePc, closedOnce, errs>>
             ELSE /\ closedOnce' = TRUE
                  /\ errs' = IF linuxInterface_Close(err) = "nil" THEN <<>>
                             ELSE <<linuxInterface_Close(err)>>
                  /\ closePc' = "processState"
                  /\ UNCHANGED <<closesReturned, lastCloseErr>>
    /\ UNCHANGED <<kind, waitVars, timerFired, ctxDone, child, exitVal,
                   signals, kills, notIface>>

\* A Close call on the handle.  Kernel-made: linuxInterface.Close, start to
\* end.  Userspace-made: wgUserspaceInterface.Close up to and including
\* w.wgInterface.Close(), or all of it when the latch has already run.  (cmd
\* and cmd.Process are set on every handle startWGUserspaceInterface makes.)
Close ==
    /\ waitResult = "nil"
    /\ closePc = "idle"
    /\ closesReturned < MaxCloses
    /\ IF kind = "userspace" /\ closedOnce
       THEN /\ closesReturned' = closesReturned + 1
            /\ lastCloseErr' = "nil"
            /\ UNCHANGED <<closePc, closedOnce, errs, linkDelCalls, linkPresent>>
       ELSE \E err \in LinkDel(linkPresent) :
              /\ linkDelCalls' = linkDelCalls + 1
              /\ linkPresent' = (linkPresent /\ err # "nil")
              /\ IF kind = "kernel"
                 THEN /\ closesReturned' = closesReturned + 1
                      /\ lastCloseErr' = linuxInterface_Close(err)
                      /\ UNCHANGED <<closePc, closedOnce, errs>>
                 ELSE /\ closedOnce' = TRUE
                      /\ errs' = IF linuxInterface_Close(err) = "nil" THEN <<>>
                                 ELSE <<linuxInterface_Close(err)>>
                      /\ closePc' = "processState"
                      /\ UNCHANGED <<closesReturned, lastCloseErr>>
    /\ UNCHANGED <<kind, waitVars, timerFired, ctxDone, child, exitVal,
                   signals, kills, notIface>>

\* Close_signal giving up when the SIGTERM cannot be sent.
Close_signalFailFast ==
    /\ closePc = "processState"
    /\ \E seen \in (IF child = "reaped" THEN {TRUE, FALSE} ELSE {FALSE}) :
          IF seen
          THEN /\ closePc' = "driverExit"
               /\ UNCHANGED <<errs, signals, closesReturned, lastCloseErr>>
          ELSE /\ signals' = signals + 1
               /\ IF child = "reaped"
                  THEN /\ errs' = Append(errs, "signaling shutdown to userspace driver")
                       /\ closePc' = "idle"
                       /\ closesReturned' = closesReturned + 1
                       /\ lastCloseErr' = "signaling shutdown to userspace driver"
                  ELSE /\ closePc' = "select"
                       /\ UNCHANGED <<errs, closesReturned, lastCloseErr>>
    /\ UNCHANGED <<kind, waitVars, timerFired, ctxDone, child, exitVal,
                   linkPresent, closedOnce, linkDelCalls, kills, notIface>>

\* The read of w.cmd.ProcessState and, when it reads nil, the SIGTERM.  The
\* field is written by the cmdExit goroutine without synchronisation, so
\* once written the read may see either value.  A non-nil read goes on to
\* receive from driverExit.
Close_signal ==
    /\ closePc = "processState"
    /\ \E seen \in (IF child = "reaped" THEN {TRUE, FALSE} ELSE {FALSE}) :
          IF seen
          THEN /\ closePc' = "driverExit"
               /\ UNCHANGED <<errs, signals>>
          ELSE /\ signals' = signals + 1
               /\ errs' = IF child = "reaped"      \* os: process already finished
                          THEN Append(errs, "signaling shutdown to userspace driver")
                          ELSE errs
               /\ closePc' = "select"
    /\ UNCHANGED <<kind, waitVars, timerFired, ctxDone, child, exitVal,
                   linkPresent, closedOnce, closesReturned, lastCloseErr,
                   linkDelCalls, kills, notIface>>

\* The cases of the select that can be taken: the timer's once
\* userspaceShutdownTimeout has elapsed, driverExit's never while the
\* channel is nil.
SelectReady ==
    {"t.C"} \cup (IF driverExit # Nil /\ child = "reaped" THEN {"driverExit"} ELSE {})

\* select { case <-t.C: Kill ...; case <-w.driverExit: }
Close_select ==
    /\ closePc = "select"
    /\ \E case \in SelectReady :
          IF case = "driverExit"
          THEN /\ closePc' = "idle"
               /\ closesReturned' = closesReturned + 1
               /\ lastCloseErr' = lastOf(errs)
               /\ UNCHANGED <<errs, kills, child, exitVal, linkPresent>>
          ELSE /\ kills' = kills + 1
               /\ IF child = "reaped"           \* os: process already finished
                  THEN /\ errs' = Append(errs, "killing userspace driver")
                       /\ closePc' = "idle"
                       /\ closesReturned' = closesReturned + 1
                       /\ lastCloseErr' = "killing userspace driver"
                       /\ UNCHANGED <<child, exitVal, linkPresent>>
                  ELSE /\ closePc' = "driverExit"
                       /\ child' = "exited"
                       /\ exitVal' = IF child = "running" THEN "ExitError" ELSE exitVal
                       /\ linkPresent' = FALSE
                       /\ UNCHANGED <<errs, closesReturned, lastCloseErr>>
    /\ UNCHANGED <<kind, waitVars, timerFired, ctxDone, closedOnce,
                   linkDelCalls, signals, notIface>>

IfaceNext ==
    \/ driver_createsLink
    \/ driver_exits
    \/ link_removed
    \/ ctx_cancel
    \/ timer_fires
    \/ cmdExit_Wait
    \/ waitForInterface_subscribe
    \/ waitForInterface_ctxDone
    \/ waitForInterface_update
    \/ waitForInterface_exit
    \/ waitForInterface_timeout
    \/ Close
    \/ Close_signal
    \/ Close_select

(***************************************************************************)
(* Agent.Run (pkg/agent/agent.go) from updateK8sLocalPeer on: the agent    *)
(* registers its own WireGuardPeer record, then watches until its context  *)
(* is cancelled.  Other agents may write the record of the same name.      *)
(***************************************************************************)
RunEndpoints == {"e1", "e2"}

RunKeys == {"k1", "k2"}

RunPsks == {"s1", "s2"}

NoRecord == [absent |-> TRUE]

\* The result object a failed clientset call hands back.
EmptyPeer == [ep |-> "", pk |-> "", psk |-> "", rv |-> 0]

\* A WireGuardPeer object as far as registration reads it: Spec.Endpoint,
\* Spec.PublicKey, Spec.PresharedKey and the resource version.
SelfRecords == [ep : RunEndpoints, pk : RunKeys, psk : RunPsks, rv : 1..MaxRV]

\* updateK8sLocalPeer
updateK8sLocalPeer(ep, pk, sk) == [ep |-> ep, pk |-> pk, psk |-> sk, rv |-> 0]

RunInit ==
    /\ selfRecord \in {NoRecord} \cup {r \in SelfRecords : r.rv = 1}
    /\ endpointAddr \in RunEndpoints
    /\ publicKey \in RunKeys
    /\ psk \in RunPsks
    /\ localPeer = updateK8sLocalPeer(endpointAddr, publicKey, psk)
    /\ runPc = "create"
    /\ runErr = "none"
    /\ selfUpdates = 0

notRun == <<peerVars, findVars, ipamVars, ifaceVars, otherVars>>

\* Another agent using the same name writes its record.
other_writes ==
    /\ \E ep \in RunEndpoints, pk \in RunKeys, sk \in RunPsks :
          IF selfRecord = NoRecord
          THEN selfRecord' = [ep |-> ep, pk |-> pk, psk |-> sk, rv |-> 1]
          ELSE /\ selfRecord.rv < MaxRV
               /\ selfRecord' = [ep |-> ep, pk |-> pk, psk |-> sk,
                                 rv |-> selfRecord.rv + 1]
    /\ UNCHANGED <<endpointAddr, publicKey, psk, localPeer, runPc, runErr,
                   selfUpdates, notRun>>

\* registerK8sLocalPeer: Create(a.localPeer)
registerK8sLocalPeer_Create ==
    /\ runPc = "create"
    /\ \/ /\ selfRecord = NoRecord
          /\ selfRecord' = [localPeer EXCEPT !.rv = 1]
          /\ localPeer' = selfRecord'
          /\ runPc' = "watch"
          /\ UNCHANGED runErr
       \/ /\ selfRecord # NoRecord               \* AlreadyExists
          /\ localPeer' = EmptyPeer
          /\ runPc' = "get"
          /\ UNCHANGED <<selfRecord, runErr>>
       \/ /\ localPeer' = EmptyPeer               \* any other failure
          /\ runPc' = "returned"
          /\ runErr' = "creating k8s WireGuardPeer object"
          /\ UNCHANGED selfRecord
    /\ UNCHANGED <<endpointAddr, publicKey, psk, selfUpdates, notRun>>

\* The Get and the endpoint comparison, with the comparison left out.
registerK8sLocalPeer_GetNoCompare ==
    /\ runPc = "get"
    /\ \/ /\ selfRecord # NoRecord
          /\ localPeer' = selfRecord
          /\ runPc' = "update"
          /\ UNCHANGED runErr
       \/ /\ localPeer' = EmptyPeer
          /\ runPc' = "returned"
          /\ runErr' = "fetching existing k8s WireGuardPeer object"
    /\ UNCHANGED <<selfRecord, endpointAddr, publicKey, psk, selfUpdates, notRun>>

\* registerK8sLocalPeer: Get(a.name) and the endpoint comparison
registerK8sLocalPeer_Get ==
    /\ runPc = "get"
    /\ \/ /\ selfRecord # NoRecord
          /\ localPeer' = selfRecord
          /\ IF endpointAddr # selfRecord.ep
             THEN /\ runPc' = "returned"
                  /\ runErr' = "PeerNameConflict"
             ELSE /\ runPc' = "update"
                  /\ UNCHANGED runErr
       \/ /\ localPeer' = EmptyPeer
          /\ runPc' = "returned"
          /\ runErr' = "fetching existing k8s WireGuardPeer object"
    /\ UNCHANGED <<selfRecord, endpointAddr, publicKey, psk, selfUpdates, notRun>>

\* registerK8sLocalPeer: Update(a.localPeer), a.localPeer being the record
\* Get returned.
registerK8sLocalPeer_Update ==
    /\ runPc = "update"
    /\ selfUpdates' = selfUpdates + 1
    /\ \/ /\ selfRecord # NoRecord
          /\ selfRecord.rv = localPeer.rv
          /\ selfRecord.rv < MaxRV
          /\ selfRecord' = [localPeer EXCEPT !.rv = @ + 1]
          /\ localPeer' = selfRecord'
          /\ runPc' = "watch"
          /\ UNCHANGED runErr
       \/ /\ localPeer' = EmptyPeer               \* Conflict, or any failure
          /\ runPc' = "returned"
          /\ runErr' = "updating k8s WireGuardPeer"
          /\ UNCHANGED selfRecord
    /\ UNCHANGED <<endpointAddr, publicKey, psk, notRun>>

\* configureWireGuardPeers has started the watch; <-ctx.Done(); return nil
Run_ctxDone ==
    /\ runPc = "watch"
    /\ runPc' = "returned"
    /\ runErr' = "nil"
    /\ UNCHANGED <<selfRecord, endpointAddr, publicKey, psk, localPeer,
                   selfUpdates, notRun>>

RunNext ==
    \/ other_writes
    \/ registerK8sLocalPeer_Create
    \/ registerK8sLocalPeer_Get
    \/ registerK8sLocalPeer_Update
    \/ Run_ctxDone

(***************************************************************************)
(* The peer reconciler under its mutex: the informer goroutine delivers    *)
(* the events one after the other while the goroutine of Agent.Run calls   *)
(* applyInitialConfig.  Each operation is Lock, the body up to the device  *)
(* call, the ConfigureDevice call if there is one, Unlock.  log keeps, in  *)
(* the order they happen, the bodies run and the device calls made.        *)
(***************************************************************************)
\* the public key of remote peer l, when it parses
LockKeys == <<"k1", "k2", "k3", "k4">>

Threads == {"informer", "orchestrator"}

NoConfig == [ReplacePeers |-> FALSE, Peers |-> <<>>]

NoEvent == [kind |-> "none", peer |-> NoPeer, n |-> 0]

LockInit ==
    /\ mutex = FALSE
    /\ thread = [t \in Threads |->
                   [pc |-> IF t = "informer" THEN "idle" ELSE "lock",
                    ev |-> NoEvent, cfg |-> NoConfig]]
    /\ evCount = 0
    /\ log = <<>>

notLock == <<findVars, ipamVars, ifaceVars, runVars, createVars, addrVars,
            agentVars, keepaliveVars>>

\* The informer takes the next event of the watch and calls OnAdd, OnUpdate
\* or OnDelete with it: a new version of a record (its resource version is
\* new), the record as last seen (a resync), or a record's removal.
informer_event ==
    /\ thread["informer"].pc = "idle"
    /\ evCount < MaxEvents
    /\ \E l \in RemoteSelfLinks, what \in {"update", "resync", "delete"} :
        \E pk \in {LockKeys[l], "bad"} :
          LET n == evCount + 1
              wgPeer == IF what = "update"
                        THEN [selfLink |-> l, rv |-> n, pk |-> pk,
                              ep |-> "e1", ka |-> 0]
                        ELSE reg[l]
          IN /\ what # "update" => (reg[l] # NoPeer /\ pk = "bad")
             /\ reg' = [reg EXCEPT ![l] = IF what = "delete" THEN NoPeer
                                          ELSE wgPeer]
             /\ thread' = [thread EXCEPT !["informer"] =
                             [pc |-> "lock",
                              ev |-> [kind |-> IF what = "delete" THEN "delete"
                                               ELSE "update",
                                      peer |-> wgPeer, n |-> n],
                              cfg |-> NoConfig]]
             /\ evCount' = n
    /\ UNCHANGED <<mutex, log, peers, initialConfigApplied, device, calls,
                   deviceTouched, allTranslated, lastEvent, errLog,
                   notLock>>

\* pt.Lock() that does not wait for the mutex.
LockNoWait(t) ==
    /\ thread[t].pc = "lock"
    /\ mutex' = TRUE
    /\ thread' = [thread EXCEPT ![t].pc = "locked"]
    /\ UNCHANGED <<evCount, log, peerVars, notLock>>

\* pt.Lock()
Lock(t) ==
    /\ thread[t].pc = "lock"
    /\ ~mutex
    /\ mutex' = TRUE
    /\ thread' = [thread EXCEPT ![t].pc = "locked"]
    /\ UNCHANGED <<evCount, log, peerVars, notLock>>

\* applyUpdate between Lock and the ConfigureDevice call
applyUpdate_locked ==
    LET st == thread["informer"]
        wgPeer == st.ev.peer
        name == wgPeer.selfLink
        t == k8sToWgctrl(wgPeer)
        duplicate == peers[name] # NoPeer /\ peers[name] = wgPeer
        call == ~duplicate /\ initialConfigApplied /\ t.err = "nil"
    IN /\ st.pc = "locked"
       /\ st.ev.kind = "update"
       /\ peers' = IF duplicate THEN peers ELSE [peers EXCEPT ![name] = wgPeer]
       /\ thread' = [thread EXCEPT !["informer"] =
                       [st EXCEPT !.pc = IF call THEN "configure" ELSE "unlock",
                                  !.cfg = IF call
                                          THEN [ReplacePeers |-> FALSE,
                                                Peers |-> <<t>>]
                                          ELSE NoConfig]]
       /\ log' = Append(log, [type |-> "event", ev |-> st.ev,
                              initial |-> initialConfigApplied,
                              call |-> call, map |-> peers',
                              cfg |-> NoConfig])
       /\ UNCHANGED <<mutex, evCount, reg, initialConfigApplied, device, calls,
                      deviceTouched, allTranslated, lastEvent, errLog,
                   notLock>>

\* deletePeer between Lock and the ConfigureDevice call
deletePeer_locked ==
    LET st == thread["informer"]
        name == st.ev.peer.selfLink
        current == peers[name]
        t == k8sToWgctrl(current)
        call == current # NoPeer /\ initialConfigApplied /\ t.err = "nil"
    IN /\ st.pc = "locked"
       /\ st.ev.kind = "delete"
       /\ peers' = IF current # NoPeer /\ ~initialConfigApplied
                   THEN [peers EXCEPT ![name] = NoPeer] ELSE peers
       /\ thread' = [thread EXCEPT !["informer"] =
                       [st EXCEPT !.pc = IF call THEN "configure" ELSE "unlock",
                                  !.cfg = IF call
                                          THEN [ReplacePeers |-> FALSE,
                                                Peers |-> <<[t EXCEPT !.Remove = TRUE]>>]
                                          ELSE NoConfig]]
       /\ log' = Append(log, [type |-> "event", ev |-> st.ev,
                              initial |-> initialConfigApplied,
                              call |-> call, map |-> peers',
                              cfg |-> NoConfig])
       /\ UNCHANGED <<mutex, evCount, reg, initialConfigApplied, device, calls,
                      deviceTouched, allTranslated, lastEvent, errLog,
                   notLock>>

\* applyInitialConfig between Lock and the ConfigureDevice call
applyInitialConfig_locked ==
    LET st == thread["orchestrator"]
    IN /\ st.pc = "locked"
       /\ initialConfigApplied' = TRUE
       /\ \E ord \in Orders(Known(peers)) :
             LET cfg == [ReplacePeers |-> TRUE,
                         Peers |-> Translations(peers, ord)]
             IN /\ thread' = [thread EXCEPT !["orchestrator"] =
                                [st EXCEPT !.pc = "configure", !.cfg = cfg]]
                /\ log' = Append(log, [type |-> "initial", ev |-> NoEvent,
                                       initial |-> TRUE, call |-> TRUE,
                                       map |-> peers, cfg |-> cfg])
       /\ UNCHANGED <<mutex, evCount, reg, peers, device, calls, deviceTouched,
                      allTranslated, lastEvent, errLog,
                   notLock>>

\* pt.wgClient.ConfigureDevice(pt.iface, config), the last statement of
\* each of the three operations
pt_ConfigureDevice(t) ==
    /\ thread[t].pc = "configure"
    /\ device' = ConfigureDevice(device, thread[t].cfg)
    /\ deviceTouched' = TRUE
    /\ log' = Append(log, [type |-> "call", ev |-> thread[t].ev,
                           initial |-> TRUE, call |-> FALSE,
                           map |-> peers, cfg |-> thread[t].cfg])
    /\ thread' = [thread EXCEPT ![t].pc = "unlock"]
    /\ UNCHANGED <<mutex, evCount, reg, peers, initialConfigApplied, calls,
                   allTranslated, lastEvent, errLog,
                   notLock>>

\* defer pt.Unlock()
Unlock(t) ==
    /\ thread[t].pc = "unlock"
    /\ mutex' = FALSE
    /\ thread' = [thread EXCEPT ![t].pc = IF t = "informer" THEN "idle"
                                          ELSE "done"]
    /\ UNCHANGED <<evCount, log, peerVars, notLock>>

LockNext ==
    \/ informer_event
    \/ \E t \in Threads : Lock(t)
    \/ applyUpdate_locked
    \/ deletePeer_locked
    \/ applyInitialConfig_locked
    \/ \E t \in Threads : pt_ConfigureDevice(t)
    \/ \E t \in Threads : Unlock(t)

(***************************************************************************)
(* The agent's life from configureWireGuardPeers to the end of Close       *)
(* (Agent.Run, Agent.configureWireGuardPeers, Agent.Close, runAgent).  The *)
(* goroutine of Run launches the informer and waits for its cache; the     *)
(* informer lists the records, queues one add notification for each and    *)
(* reports HasSynced; its listener hands the notifications to the          *)
(* peerTracker one by one.  The handlers and applyInitialConfig are taken  *)
(* as single steps here; their interleaving under the mutex is above.      *)
(***************************************************************************)
\* The record the registry holds under self-link l.
AgentRecord(l) ==
    [selfLink |-> l, rv |-> 1,
     pk |-> IF l = LocalSelfLink THEN "k1" ELSE LockKeys[l],
     ep |-> "e1", ka |-> 0]

AgentInit ==
    /\ agentCtx = FALSE
    /\ informerPc = "none"
    /\ hasSynced = FALSE
    /\ replayed = {}
    /\ pending = <<>>
    /\ agentPc = "configure"
    /\ cfgErr = "none"
    /\ agentRunErr = "none"
    /\ agentClosePc = "idle"

\* The handle EnsureWireGuardInterface returned to Agent.init.
AgentIfaceInit ==
    /\ kind \in {"kernel", "userspace"}
    /\ waitResult = "nil"
    /\ lastUpdate = IF kind = "kernel" THEN "none" ELSE ifName
    /\ ignored = 0
    /\ timerFired = FALSE
    /\ ctxDone = FALSE
    /\ child = IF kind = "kernel" THEN "none" ELSE "running"
    /\ exitVal = "none"
    /\ linkPresent = TRUE
    /\ closePc = "idle"
    /\ closedOnce = FALSE
    /\ errs = <<>>
    /\ closesReturned = 0
    /\ lastCloseErr = "none"
    /\ linkDelCalls = 0
    /\ signals = 0
    /\ kills = 0

notAgent == <<findVars, ipamVars, runVars, createVars, addrVars, lockVars,
             keepaliveVars>>

\* signalContext: a SIGINT or SIGTERM cancels the context.
signalContext_cancel ==
    /\ ~agentCtx
    /\ agentCtx' = TRUE
    /\ UNCHANGED <<informerPc, hasSynced, replayed, pending, agentPc, cfgErr,
                   agentRunErr, agentClosePc, peerVars, ifaceVars, notAgent>>

\* configureWireGuardPeers up to and including the go statement: the
\* tracker is made, a.wg.Add(1), informer.Run(ctx.Done()) starts.
configureWireGuardPeers_launch ==
    /\ agentPc = "configure"
    /\ agentPc' = "waitSync"
    /\ informerPc' = "running"
    /\ UNCHANGED <<agentCtx, hasSynced, replayed, pending, cfgErr,
                   agentRunErr, agentClosePc, peerVars, ifaceVars, notAgent>>

\* informer.Run: the first list has come back and every record of it has
\* been put into the store and queued for the listener as an add
\* notification; HasSynced reports true from here on.
informer_listed ==
    /\ informerPc = "running"
    /\ ~hasSynced
    /\ \E S \in SUBSET SelfLinks :
          /\ replayed' = S
          /\ pending' \in Orders(S)
    /\ hasSynced' = TRUE
    /\ UNCHANGED <<agentCtx, informerPc, agentPc, cfgErr, agentRunErr,
                   agentClosePc, peerVars, ifaceVars, notAgent>>

\* informer.Run: the watch reports a record created after the list.
informer_watchAdd ==
    /\ informerPc = "running"
    /\ hasSynced
    /\ \E l \in SelfLinks \ replayed :
          /\ reg[l] = NoPeer
          /\ \A i \in 1..Len(pending) : pending[i] # l
          /\ pending' = Append(pending, l)
    /\ UNCHANGED <<agentCtx, informerPc, hasSynced, replayed, agentPc, cfgErr,
                   agentRunErr, agentClosePc, peerVars, ifaceVars, notAgent>>

\* The informer's listener takes the next notification and calls
\* peerTracker.OnAdd with its record.
listener_OnAdd ==
    /\ informerPc = "running"
    /\ pending # <<>>
    /\ pending' = Tail(pending)
    /\ LET wgPeer == AgentRecord(Head(pending))
       IN /\ reg' = [reg EXCEPT ![wgPeer.selfLink] = wgPeer]
          /\ lastEvent' = [what |-> "add", link |-> wgPeer.selfLink]
          /\ IF wgPeer.selfLink = LocalSelfLink
             THEN /\ calls' = <<>>
                  /\ errLog' = "nil"
                  /\ UNCHANGED <<peers, device, deviceTouched>>
             ELSE applyUpdate(wgPeer)
    /\ UNCHANGED <<initialConfigApplied, allTranslated, agentCtx, informerPc,
                   hasSynced, replayed, agentPc, cfgErr, agentRunErr,
                   agentClosePc, ifaceVars, notAgent>>

\* informer.Run returns once ctx.Done() is closed and its listener has
\* stopped; the notifications not yet handed over are dropped.  The
\* deferred a.wg.Done() follows.
informer_exits ==
    /\ informerPc = "running"
    /\ agentCtx
    /\ informerPc' = "exited"
    /\ pending' = <<>>
    /\ UNCHANGED <<agentCtx, hasSynced, replayed, agentPc, cfgErr,
                   agentRunErr, agentClosePc, peerVars, ifaceVars, notAgent>>

\* cache.WaitForCacheSync(ctx.Done(), informer.HasSynced): true once
\* HasSynced answers true, false once the context is done; either when both
\* are the case.
configureWireGuardPeers_WaitForCacheSync ==
    /\ agentPc = "waitSync"
    /\ \/ /\ hasSynced
          /\ agentPc' = "apply"
          /\ UNCHANGED cfgErr
       \/ /\ agentCtx
          /\ agentPc' = "block"
          /\ cfgErr' = "failed to sync WireGuardPeers"
    /\ UNCHANGED <<agentCtx, informerPc, hasSynced, replayed, pending,
                   agentRunErr, agentClosePc, peerVars, ifaceVars, notAgent>>

\* return a.peerTracker.applyInitialConfig(): the bulk configuration of the
\* peers in the map, and what ConfigureDevice answered.
configureWireGuardPeers_applyInitialConfig ==
    /\ agentPc = "apply"
    /\ agentPc' = "block"
    /\ initialConfigApplied' = TRUE
    /\ \E ord \in Orders(Known(peers)), e \in {"nil", "ConfigureDevice"} :
          LET cfg == [ReplacePeers |-> TRUE, Peers |-> Translations(peers, ord)]
          IN /\ calls' = <<cfg>>
             /\ device' = IF e = "nil" THEN ConfigureDevice(device, cfg) ELSE device
             /\ cfgErr' = e
    /\ deviceTouched' = TRUE
    /\ lastEvent' = NoDelivery
    /\ errLog' = "nil"
    /\ UNCHANGED <<reg, peers, allTranslated, agentCtx, informerPc, hasSynced,
                   replayed, pending, agentRunErr, agentClosePc, ifaceVars,
                   notAgent>>

\* Run after configureWireGuardPeers, whose result it drops:
\* <-ctx.Done(); return nil
Run_return ==
    /\ agentPc = "block"
    /\ agentCtx
    /\ agentPc' = "returned"
    /\ agentRunErr' = "nil"
    /\ UNCHANGED <<agentCtx, informerPc, hasSynced, replayed, pending, cfgErr,
                   agentClosePc, peerVars, ifaceVars, notAgent>>

\* runAgent: the deferred a.Close() once Run has returned; closeOnce lets
\* the body run, which starts with a.wg.Wait().
Agent_Close ==
    /\ agentPc = "returned"
    /\ agentClosePc = "idle"
    /\ agentClosePc' = "wg.Wait"
    /\ UNCHANGED <<agentCtx, informerPc, hasSynced, replayed, pending, agentPc,
                   cfgErr, agentRunErr, peerVars, ifaceVars, notAgent>>

\* a.wg.Wait() returns when the informer goroutine is done.
Agent_Close_wgWait ==
    /\ agentClosePc = "wg.Wait"
    /\ informerPc \in {"none", "exited"}
    /\ agentClosePc' = "iface.Close"
    /\ UNCHANGED <<agentCtx, informerPc, hasSynced, replayed, pending, agentPc,
                   cfgErr, agentRunErr, peerVars, ifaceVars, notAgent>>

\* a.iface.Close() is called
Agent_Close_iface ==
    /\ agentClosePc = "iface.Close"
    /\ closesReturned = 0
    /\ linkDelCalls = 0
    /\ Close

\* a.iface.Close() has returned, and Agent.Close returns.
Agent_Close_return ==
    /\ agentClosePc = "iface.Close"
    /\ closesReturned > 0
    /\ agentClosePc' = "returned"
    /\ UNCHANGED <<agentCtx, informerPc, hasSynced, replayed, pending, agentPc,
                   cfgErr, agentRunErr, peerVars, ifaceVars, notAgent>>

AgentNext ==
    \/ signalContext_cancel
    \/ configureWireGuardPeers_launch
    \/ informer_listed
    \/ informer_watchAdd
    \/ listener_OnAdd
    \/ informer_exits
    \/ configureWireGuardPeers_WaitForCacheSync
    \/ configureWireGuardPeers_applyInitialConfig
    \/ Run_return
    \/ Agent_Close
    \/ Agent_Close_wgWait
    \/ Agent_Close_iface
    \/ Agent_Close_return
    \/ driver_exits
    \/ cmdExit_Wait
    \/ Close_signal
    \/ Close_select

(***************************************************************************)
(* The keepalive of k8sToWgctrl on its own: one local maximum, one         *)
(* advertised value, one translation.                                      *)
(***************************************************************************)
NoInterval == [made |-> FALSE, seconds |-> 0]

KeepaliveInit ==
    /\ ptKeepalive \in 0..MaxKeepalive
    /\ KeepAliveSeconds \in -1..MaxKeepalive
    /\ keepaliveOut = NoInterval

\* pt.k8sToWgctrl(wgPeer), as far as the keepalive goes
k8sToWgctrl_keepalive ==
    /\ ~keepaliveOut.made
    /\ keepaliveOut' =
          [made |-> TRUE,
           seconds |-> PersistentKeepaliveInterval(ptKeepalive, KeepAliveSeconds)]
    /\ UNCHANGED <<ptKeepalive, KeepAliveSeconds, peerVars, findVars, ipamVars,
                   ifaceVars, runVars, createVars, addrVars, lockVars, agentVars>>

KeepaliveNext == k8sToWgctrl_keepalive

(***************************************************************************)
(* The interface factory (pkg/interfaces): createOrReuseWGInterface picks  *)
(* a name with nextInterfaceName and hands it to the drivers through       *)
(* createWGInterfaceWithName.  A name is a sequence of characters.  What a *)
(* driver answers is the environment's choice.                             *)
(***************************************************************************)
IFNAMSIZ == 16

\* IsWireGuardInterfaceNameValid on Linux, by the cases of its test: "" for
\* a valid name, else the error.
IsWireGuardInterfaceNameValid(n) ==
    IF n = <<>> THEN "empty"
    ELSE IF Len(n) >= IFNAMSIZ THEN "too long"
    ELSE IF \E i \in 1..Len(n) : n[i] \in {"/", " "} THEN "bad character"
    ELSE ""

\* nextInterfaceName(desired, last): [name, err].  strconv.ParseUint and
\* the %d of Sprintf are done on the digits, so that no number is cut to
\* the checker's integers.
nextInterfaceName(desired, last) ==
    LET digits == <<"0", "1", "2", "3", "4", "5", "6", "7", "8", "9">>
        maxUint64 == <<"1", "8", "4", "4", "6", "7", "4", "4", "0", "7",
                       "3", "7", "0", "9", "5", "5", "1", "6", "1", "5">>
        value(c) == (CHOOSE i \in 1..10 : digits[i] = c) - 1
        base == SubSeq(desired, 1, Len(desired) - 1)
        \* strings.Replace(last, base, "", 1)
        at == {i \in 1..(Len(last) - Len(base) + 1) :
                  SubSeq(last, i, i + Len(base) - 1) = base}
        first == CHOOSE i \in at : \A j \in at : i <= j
        text == IF base = <<>> \/ at = {} THEN last
                ELSE SubSeq(last, 1, first - 1)
                     \o SubSeq(last, first + Len(base), Len(last))
        \* strconv.ParseUint(text, 10, 64)
        syntaxOk == text # <<>> /\ \A i \in 1..Len(text) :
                                      \E d \in 1..10 : digits[d] = text[i]
        nonZero == {i \in 1..Len(text) : text[i] # "0"}
        lead == CHOOSE i \in nonZero : \A j \in nonZero : i <= j
        num == IF nonZero = {} THEN <<"0">> ELSE SubSeq(text, lead, Len(text))
        differ == {i \in 1..Len(num) : num[i] # maxUint64[i]}
        firstDiffer == CHOOSE i \in differ : \A j \in differ : i <= j
        inRange == \/ Len(num) < Len(maxUint64)
                   \/ /\ Len(num) = Len(maxUint64)
                      /\ \/ differ = {}
                         \/ value(num[firstDiffer]) < value(maxUint64[firstDiffer])
        \* num++ on a uint64
        notNine == {i \in 1..Len(num) : num[i] # "9"}
        last9 == CHOOSE i \in notNine : \A j \in notNine : j <= i
        incremented ==
            IF num = maxUint64 THEN <<"0">>
            ELSE IF notNine = {} THEN <<"1">> \o [i \in 1..Len(num) |-> "0"]
            ELSE [i \in 1..Len(num) |->
                    IF i < last9 THEN num[i]
                    ELSE IF i = last9 THEN digits[value(num[i]) + 2]
                    ELSE "0"]
        name == base \o incremented
    IN IF ~(Len(desired) > 0 /\ desired[Len(desired)] = "+")
       THEN IF last = <<>> THEN [name |-> desired, err |-> ""]
            ELSE [name |-> <<>>, err |-> "exists"]
       ELSE IF last = <<>>
       THEN [name |-> [i \in 1..Len(desired) |->
                          IF desired[i] = "+" THEN "0" ELSE desired[i]],
             err |-> ""]
       ELSE IF ~(syntaxOk /\ inRange)
       THEN [name |-> <<>>, err |-> "generating interface name"]
       ELSE IF IsWireGuardInterfaceNameValid(name) # ""
       THEN [name |-> <<>>, err |-> IsWireGuardInterfaceNameValid(name)]
       ELSE [name |-> name, err |-> ""]

\* The ports an existing device may listen on; a caller asks for the first
\* of them or for none (0).
ListenPorts == {51820, 51821}

\* made before anything is made: no link added, no child started.
NothingMade == [links |-> {}, children |-> {}]

\* seenDev before wgClient.Device is called.
NotAsked == [err |-> "not called", ListenPort |-> 0]

\* handle while the call holds no interface.
NoHandle == [name |-> <<>>, by |-> "none"]

\* The calls: a literal name, wildcard names (one of them as long as a name
\* may be, one with two placeholders), every driver choice.
CreateInit ==
    /\ options \in [InterfaceName : {<<"w", "g", "0">>, <<"w", "g", "+">>,
                                     <<"w", "+", "+">>,
                                     [i \in 1..(IFNAMSIZ - 2) |-> "w"] \o <<"+">>},
                    Driver : {"AutoSelect", "KernelDriver", "BoringTunDriver",
                              "WireGuardGoDriver", "ExistingInterface"},
                    ReuseExisting : BOOLEAN,
                    Port : {0, 51820}]
    /\ ifaceName = <<>>
    /\ createPc = "name"
    /\ createErr = ""
    /\ attempts = <<>>
    /\ namesSeen = <<>>
    /\ existing = {}
    /\ made = NothingMade
    /\ handle = NoHandle
    /\ seenDev = NotAsked

notCreate == <<peerVars, findVars, ipamVars, ifaceVars, runVars, addrVars,
              lockVars, agentVars, keepaliveVars>>

\* firstDriver taking the kernel driver for every choice it does not know.
firstDriverKernelDefault(driver) ==
    IF driver = "BoringTunDriver" THEN "BoringTun"
    ELSE IF driver = "WireGuardGoDriver" THEN "WireGuardGo"
    ELSE "Kernel"

\* createWGInterfaceWithName: the first driver whose block the choice lets
\* in; none for ExistingInterface, which goes past all three.
firstDriver(driver) ==
    IF driver \in {"KernelDriver", "AutoSelect"} THEN "Kernel"
    ELSE IF driver = "BoringTunDriver" THEN "BoringTun"
    ELSE IF driver = "WireGuardGoDriver" THEN "WireGuardGo"
    ELSE "none"

\* One turn of the loop of createOrReuseWGInterface up to the call of
\* createWGInterfaceWithName.  Whether an interface of the name exists is
\* the environment's choice.
createOrReuseWGInterface_name ==
    /\ createPc = "name"
    /\ Len(namesSeen) < MaxNames
    /\ LET r == nextInterfaceName(options.InterfaceName, ifaceName)
       IN IF r.err # ""
          THEN /\ createPc' = "returned"
               /\ createErr' = r.err
               /\ attempts' = <<>>
               /\ UNCHANGED <<ifaceName, namesSeen, existing>>
          ELSE /\ ifaceName' = r.name
               /\ namesSeen' = Append(namesSeen, r.name)
               /\ attempts' = <<>>
               /\ UNCHANGED createErr
               /\ \E exists \in BOOLEAN :
                     /\ existing' = IF exists THEN existing \cup {r.name}
                                    ELSE existing
                     /\ createPc' =
                        IF exists
                        THEN IF options.ReuseExisting
                                \/ options.Driver = "ExistingInterface"
                             THEN "reuse" ELSE "name"
                        ELSE firstDriver(options.Driver)
    /\ UNCHANGED <<options, made, handle, seenDev, notCreate>>

\* The adoption of an existing interface without the comparison of ports.
createOrReuseWGInterface_reuseAnyPort ==
    /\ createPc = "reuse"
    /\ \E dev \in {"nil", "err"}, d \in ListenPorts, link \in {"nil", "err"} :
          /\ seenDev' = [err |-> dev, ListenPort |-> IF dev = "nil" THEN d ELSE 0]
          /\ IF dev = "err"
             THEN /\ createPc' = "returned"
                  /\ createErr' = "initializing existing device"
                  /\ UNCHANGED handle
             ELSE IF link = "err"
             THEN /\ createPc' = "returned"
                  /\ createErr' = "LinkByName"
                  /\ UNCHANGED handle
             ELSE /\ createPc' = "port"
                  /\ handle' = [name |-> ifaceName, by |-> "existing"]
                  /\ UNCHANGED createErr
    /\ UNCHANGED <<options, ifaceName, attempts, namesSeen, existing, made,
                   notCreate>>

\* The branch of createOrReuseWGInterface that adopts the interface found
\* under the name: wgClient.Device, the port comparison, newWGInterface.
\* What the driver and netlink answer is the environment's choice.
createOrReuseWGInterface_reuse ==
    /\ createPc = "reuse"
    /\ \E dev \in {"nil", "err"}, d \in ListenPorts, link \in {"nil", "err"} :
          /\ seenDev' = [err |-> dev, ListenPort |-> IF dev = "nil" THEN d ELSE 0]
          /\ IF dev = "err"
             THEN /\ createPc' = "returned"
                  /\ createErr' = "initializing existing device"
                  /\ UNCHANGED handle
             ELSE IF options.Port # 0 /\ d # options.Port
             THEN /\ createPc' = "returned"
                  /\ createErr' = "existing device listening on port"
                  /\ UNCHANGED handle
             ELSE IF link = "err"
             THEN /\ createPc' = "returned"
                  /\ createErr' = "LinkByName"
                  /\ UNCHANGED handle
             ELSE /\ createPc' = "port"
                  /\ handle' = [name |-> ifaceName, by |-> "existing"]
                  /\ UNCHANGED createErr
    /\ UNCHANGED <<options, ifaceName, attempts, namesSeen, existing, made,
                   notCreate>>

\* What a driver's turn for the name leaves behind.  The kernel driver adds
\* the link and then looks it up; a userspace driver is started as a child,
\* which adds the link.  A turn that ends in driver-not-found, unimplemented
\* or already-exists has made nothing; one that ends in another error has
\* (left) or has not got as far as the link or the child, which then stay.
Made(driver, name, out, left) ==
    IF out = "ok" \/ (out = "Other" /\ left)
    THEN [links |-> made.links \cup {name},
          children |-> IF driver = "Kernel" THEN made.children
                       ELSE made.children \cup {name}]
    ELSE made

\* createWGInterfaceWithName: every failure of a driver goes on to the next.
createWGInterfaceWithName_tryAlwaysNext ==
    /\ createPc \in {"Kernel", "BoringTun", "WireGuardGo"}
    /\ \E out \in {"ok", "NotFound", "Unimplemented", "Exist", "Other"} :
          LET next == IF createPc = "Kernel" THEN "BoringTun"
                      ELSE IF createPc = "BoringTun" THEN "WireGuardGo"
                      ELSE "none"
          IN /\ attempts' = Append(attempts, <<createPc, out>>)
             /\ \E left \in BOOLEAN : made' = Made(createPc, ifaceName, out, left)
             /\ IF out = "ok"
                THEN /\ createPc' = "port"
                     /\ handle' = [name |-> ifaceName, by |-> createPc]
                     /\ UNCHANGED createErr
                ELSE createPc' = next /\ UNCHANGED <<createErr, handle>>
    /\ UNCHANGED <<options, ifaceName, namesSeen, existing, seenDev, notCreate>>

\* createWGInterfaceWithName_try with a loop that returns an already-exists
\* error like any other.
createWGInterfaceWithName_tryExistFatal ==
    /\ createPc \in {"Kernel", "BoringTun", "WireGuardGo"}
    /\ \E out \in {"ok", "NotFound", "Unimplemented", "Exist", "Other"} :
          LET explicit == options.Driver # "AutoSelect"
              skipped == IF createPc = "Kernel" THEN {"NotFound", "Unimplemented"}
                         ELSE {"NotFound"}
              next == IF createPc = "Kernel" THEN "BoringTun"
                      ELSE IF createPc = "BoringTun" THEN "WireGuardGo"
                      ELSE "none"
          IN /\ attempts' = Append(attempts, <<createPc, out>>)
             /\ \E left \in BOOLEAN : made' = Made(createPc, ifaceName, out, left)
             /\ IF out = "ok"
                THEN /\ createPc' = "port"
                     /\ handle' = [name |-> ifaceName, by |-> createPc]
                     /\ UNCHANGED createErr
                ELSE /\ UNCHANGED handle
                     /\ IF explicit \/ out \notin skipped
                        THEN createPc' = "returned" /\ createErr' = out
                        ELSE createPc' = next /\ UNCHANGED createErr
    /\ UNCHANGED <<options, ifaceName, namesSeen, existing, seenDev, notCreate>>

\* One driver's turn in createWGInterfaceWithName, and what the loop of
\* createOrReuseWGInterface does with the error when the call returns one.
createWGInterfaceWithName_try ==
    /\ createPc \in {"Kernel", "BoringTun", "WireGuardGo"}
    /\ \E out \in {"ok", "NotFound", "Unimplemented", "Exist", "Other"} :
          LET explicit == options.Driver # "AutoSelect"
              skipped == IF createPc = "Kernel" THEN {"NotFound", "Unimplemented"}
                         ELSE {"NotFound"}
              next == IF createPc = "Kernel" THEN "BoringTun"
                      ELSE IF createPc = "BoringTun" THEN "WireGuardGo"
                      ELSE "none"
          IN /\ attempts' = Append(attempts, <<createPc, out>>)
             /\ \E left \in BOOLEAN : made' = Made(createPc, ifaceName, out, left)
             /\ IF out = "ok"
                THEN /\ createPc' = "port"
                     /\ handle' = [name |-> ifaceName, by |-> createPc]
                     /\ UNCHANGED createErr
                ELSE /\ UNCHANGED handle
                     /\ IF explicit \/ out \notin skipped
                        THEN IF out = "Exist"
                             THEN createPc' = "name" /\ UNCHANGED createErr
                             ELSE createPc' = "returned" /\ createErr' = out
                        ELSE createPc' = next /\ UNCHANGED createErr
    /\ UNCHANGED <<options, ifaceName, namesSeen, existing, seenDev, notCreate>>

\* No driver was left to try: "no wireguard drivers succeeded".
createWGInterfaceWithName_none ==
    /\ createPc = "none"
    /\ createPc' = "returned"
    /\ createErr' = "no wireguard drivers succeeded"
    /\ UNCHANGED <<options, ifaceName, namesSeen, attempts, existing, made, handle,
                   seenDev, notCreate>>

\* EnsureWireGuardInterface once createOrReuseWGInterface has returned an
\* interface: the listen port, when one is asked for, is set on it.
EnsureWireGuardInterface_port ==
    /\ createPc = "port"
    /\ createPc' = "returned"
    /\ IF options.Port = 0
       THEN UNCHANGED <<createErr, handle>>
       ELSE \E err \in {"nil", "failed"} :
               IF err = "nil"
               THEN UNCHANGED <<createErr, handle>>
               ELSE /\ createErr' = "setting WireGuard listen port"
                    /\ handle' = NoHandle
    /\ UNCHANGED <<options, ifaceName, attempts, namesSeen, existing, made,
                   seenDev, notCreate>>

CreateNext ==
    \/ createOrReuseWGInterface_name
    \/ createOrReuseWGInterface_reuse
    \/ createWGInterfaceWithName_try
    \/ createWGInterfaceWithName_none
    \/ EnsureWireGuardInterface_port

(***************************************************************************)
(* The default range of a CIDR and the walk incrementIP makes through it,  *)
(* as loadPool and findAddress use them.  A CIDR is what net.ParseCIDR     *)
(* returns: the network address and the mask, 4 bytes each for IPv4 text   *)
(* and 16 bytes each for IPv6 text.                                        *)
(***************************************************************************)
V6(tail) == <<254, 128, 0, 0, 0, 0, 0, 0, 0, 0, 0, 0, 0, 0>> \o tail

\* 10.0.0.0/30, 10.0.1.0/31, 10.0.0.7/32, 10.0.0.8/29, 10.0.2.0/23,
\* fe80::/126, fe80::2/127, fe80::5/128, ::ffff:10.0.0.0/126
AddrCIDRs ==
    {[IP |-> A(0), Mask |-> CIDRMask(30, 32)],
     [IP |-> B(0), Mask |-> CIDRMask(31, 32)],
     [IP |-> A(7), Mask |-> CIDRMask(32, 32)],
     [IP |-> A(8), Mask |-> CIDRMask(29, 32)],
     [IP |-> <<10, 0, 2, 0>>, Mask |-> CIDRMask(23, 32)],
     [IP |-> V6(<<0, 0>>), Mask |-> CIDRMask(126, 128)],
     [IP |-> V6(<<0, 2>>), Mask |-> CIDRMask(127, 128)],
     [IP |-> V6(<<0, 5>>), Mask |-> CIDRMask(128, 128)],
     [IP |-> v4InV6Prefix \o A(0), Mask |-> CIDRMask(126, 128)]}

\* The addresses a walk starts from: every address of a CIDR of at most 8,
\* else the first, the last and those next to a carry out of the last byte.
WalkStarts(cidr) ==
    LET c == canonicalIPInCIDR(cidr)
        all == {byteSliceOr(c.IP, h).out : h \in hostParts(byteSliceNot(c.Mask))}
    IN IF Cardinality(all) <= 8 THEN all
       ELSE {ip \in all : ip[Len(ip)] \in {0, 254, 255}
                          /\ \A i \in 1..(Len(ip) - 2) : ip[i] = c.IP[i]}

AddrInit ==
    /\ addrCidr \in AddrCIDRs
    /\ addrPc = "new"
    /\ rangeStart = Nil
    /\ rangeEnd = Nil
    /\ \E a \in WalkStarts(addrCidr) :
          /\ walkStart = a
          /\ walkCur = [IP |-> a, Mask |-> canonicalIPInCIDR(addrCidr).Mask]
    /\ walkSteps = 0

notAddr == <<peerVars, findVars, ipamVars, ifaceVars, runVars, createVars,
            lockVars, agentVars, keepaliveVars>>

\* loadPool without Start and End: the defaults of the CIDR.
loadPool_defaultRange ==
    /\ addrPc = "new"
    /\ addrPc' = "ranged"
    /\ rangeStart' = defaultRangeStart(addrCidr)
    /\ rangeEnd' = defaultRangeEnd(addrCidr)
    /\ UNCHANGED <<addrCidr, walkStart, walkCur, walkSteps, notAddr>>

\* findAddress: one incrementIP, until the walk is back where it started.
findAddress_incrementIP ==
    /\ addrPc = "ranged"
    /\ ~(walkSteps > 0 /\ IPEqual(walkCur.IP, walkStart))
    /\ walkSteps < pow2(8 * Len(walkCur.Mask) - maskOnes(walkCur.Mask))
    /\ LET next == incrementIP(walkCur)
       IN /\ next.err = "nil"
          /\ walkCur' = [IP |-> next.IP, Mask |-> next.Mask]
    /\ walkSteps' = walkSteps + 1
    /\ UNCHANGED <<addrCidr, addrPc, rangeStart, rangeEnd, walkStart, notAddr>>

AddrNext ==
    \/ loadPool_defaultRange
    \/ findAddress_incrementIP

(***************************************************************************)
(* Claims about the peer reconciler                                        *)
(***************************************************************************)
DeviceKeys == {d.PublicKey : d \in device}

RegistryKeys == {reg[l].pk : l \in {r \in RemoteSelfLinks : reg[r] # NoPeer}}

\* C1: once apply_initial_config has run and the delivered events have been
\* processed, the public keys configured on the device are exactly those of
\* the non-local records in the observed registry state (every record
\* delivered so far having translated successfully).
C1_DeviceMatchesRegistry ==
    (initialConfigApplied /\ allTranslated) => DeviceKeys = RegistryKeys

\* C6: before apply_initial_config has run no ConfigureDevice call has been
\* made and the device is untouched; events have only updated the map, which
\* holds exactly the records added/updated and not deleted.
C6_NoDeviceCallBeforeInitial ==
    ~initialConfigApplied =>
        /\ ~deviceTouched
        /\ calls = <<>>
        /\ device = {}
        /\ \A l \in RemoteSelfLinks : peers[l] = reg[l]

C6_Witness ==
    /\ ~initialConfigApplied
    /\ \E l \in RemoteSelfLinks : peers[l] # NoPeer /\ peers[l].rv = 2
    /\ \E l \in RemoteSelfLinks : peers[l] = NoPeer

\* C7: the peer map never holds an entry under the local self-link, and no
\* ConfigureDevice call carries an entry built from the local record.
C7_NoLocalPeer ==
    /\ peers[LocalSelfLink] = NoPeer
    /\ \A i \in 1..Len(calls) :
          \A j \in 1..Len(calls[i].Peers) :
              calls[i].Peers[j].Origin # LocalSelfLink

C7_Witness ==
    /\ reg[LocalSelfLink] # NoPeer
    /\ initialConfigApplied
    /\ calls # <<>>
    /\ \E l \in RemoteSelfLinks : peers[l] # NoPeer

\* The spec fields of a record: what is left when the metadata is dropped.
SpecFields(r) == [pk |-> r.pk, ep |-> r.ep, ka |-> r.ka]

\* This step delivers an add or update of l carrying a new object.
AddOrUpdateOf(l) == reg'[l] # NoPeer /\ reg'[l] # reg[l]

\* This step delivers the delete of l.
DeleteOf(l) == reg[l] # NoPeer /\ reg'[l] = NoPeer

\* The calls of this step are one ConfigureDevice call without ReplacePeers
\* that carries one entry, for the key pk, with the remove flag as given.
OneIncrementalCall(pk, remove) ==
    /\ Len(calls') = 1
    /\ ~calls'[1].ReplacePeers
    /\ Len(calls'[1].Peers) = 1
    /\ calls'[1].Peers[1].PublicKey = pk
    /\ calls'[1].Peers[1].Remove = remove

\* After applyInitialConfig: an add or update that is no duplicate of the
\* stored record and a delete of a stored record make one incremental call
\* each; with whenTranslated, only when the record translates, and no call
\* at all when it does not.
IncrementalCalls(whenTranslated) ==
    initialConfigApplied =>
      \A l \in RemoteSelfLinks :
        /\ (/\ AddOrUpdateOf(l)
            /\ ~(peers[l] # NoPeer /\ SpecFields(peers[l]) = SpecFields(reg'[l])))
           => IF whenTranslated /\ k8sToWgctrl(reg'[l]).err # "nil"
              THEN calls' = <<>> /\ peers'[l] = reg'[l]
              ELSE OneIncrementalCall(reg'[l].pk, FALSE)
        /\ (DeleteOf(l) /\ peers[l] # NoPeer)
           => IF whenTranslated /\ k8sToWgctrl(peers[l]).err # "nil"
              THEN calls' = <<>>
              ELSE OneIncrementalCall(peers[l].pk, TRUE)

C18_InitialConfigIsBulk ==
    [][(~initialConfigApplied /\ initialConfigApplied') =>
          LET good == {l \in Known(peers) : k8sToWgctrl(peers[l]).err = "nil"}
          IN /\ Len(calls') = 1
             /\ calls'[1].ReplacePeers
             /\ Len(calls'[1].Peers) = Cardinality(good)
             /\ {calls'[1].Peers[i] : i \in 1..Len(calls'[1].Peers)}
                   = {k8sToWgctrl(peers[l]) : l \in good}
             /\ peers' = peers]_vars

\* apply_initial_config has just run over a map with a peer that translates
\* and one that does not.
C18_Witness ==
    /\ initialConfigApplied
    /\ Len(calls) = 1 /\ calls[1].ReplacePeers
    /\ Len(calls[1].Peers) = 1
    /\ \E l \in RemoteSelfLinks : peers[l] # NoPeer /\ peers[l].pk = "bad"

\* C19: an add or update whose spec fields equal those of the record stored
\* under the same self-link changes neither the map nor the device and
\* makes no device-configure call, also when its resource version differs
\* from the stored one.
C19_SpecEqualIsNoOp ==
    [][\A l \in RemoteSelfLinks :
         (/\ AddOrUpdateOf(l)
          /\ peers[l] # NoPeer
          /\ SpecFields(peers[l]) = SpecFields(reg'[l]))
         => peers' = peers /\ calls' = <<>> /\ device' = device]_vars

\* After applyInitialConfig this step handles an add or update of a
\* non-local record that does not translate: the error is logged, no device
\* call is made and the map holds the record.  With onlyNew, only for a
\* record that is not the very object the map already holds under its link.
FailedTranslationHandled(onlyNew) ==
    LET l == lastEvent'.link
        wgPeer == reg'[l]    \* the object the event carries
    IN (/\ initialConfigApplied
        /\ lastEvent'.what \in {"add", "update"}
        /\ l # LocalSelfLink
        /\ k8sToWgctrl(wgPeer).err # "nil"
        /\ onlyNew => peers[l] # wgPeer)
       => /\ errLog' = k8sToWgctrl(wgPeer).err
          /\ calls' = <<>>
          /\ device' = device
          /\ peers' = [peers EXCEPT ![l] = wgPeer]

\* C21: when, after apply_initial_config, an add or update event carries a
\* peer whose translation fails (invalid public key or unresolvable
\* endpoint), the error is reported, no device-configure call is made, and
\* the peer map is still updated with the new record.
C21_FailedTranslationStored == [][FailedTranslationHandled(FALSE)]_vars

\* C21, amended: the same for every such event whose record is not identical
\* to the one the map already holds under its self-link; an identical record
\* is dropped before it is translated, and no error is reported for it.
C21_NewFailedTranslationStored == [][FailedTranslationHandled(TRUE)]_vars

\* After apply_initial_config an update that does not translate has been
\* logged and stored over an older record, with no device call.
C21_Witness ==
    /\ initialConfigApplied
    /\ lastEvent.what = "update"
    /\ lastEvent.link # LocalSelfLink
    /\ reg[lastEvent.link].rv = 2
    /\ errLog = "InvalidPublicKey"
    /\ calls = <<>>
    /\ peers[lastEvent.link] = reg[lastEvent.link]
    /\ device # {}

\* The last entry of log before position i that is an event on link l.
LastEventBefore(i, l) ==
    LET js == {j \in 1..(i - 1) : log[j].type = "event"
                                  /\ log[j].ev.peer.selfLink = l}
    IN IF js = {} THEN NoEvent
       ELSE log[CHOOSE j \in js : \A k \in js : k <= j].ev

\* C20: with the informer delivering events while apply_initial_config is
\* called from another thread, two operations of the reconciler are never
\* inside the mutex together; every device-configure call directly follows
\* the map step of its own operation; the events are applied in the order
\* they arrived, none skipped; an event applied before apply_initial_config
\* makes no call of its own and is in the map the bulk configuration is
\* built from, and an event applied after it that changes the device makes
\* its own call, after the bulk call.
C20_SerializedInArrivalOrder ==
    LET inside == {"locked", "configure", "unlock"}
        n == Len(log)
        events == {i \in 1..n : log[i].type = "event"}
        initials == {i \in 1..n : log[i].type = "initial"}
    IN /\ ~(thread["informer"].pc \in inside
            /\ thread["orchestrator"].pc \in inside)
       /\ \A i \in 1..n :
             /\ log[i].type = "call" =>
                   /\ i > 1
                   /\ log[i - 1].type # "call" /\ log[i - 1].call
                   /\ log[i - 1].ev = log[i].ev
             /\ (log[i].type # "call" /\ log[i].call) =>
                   IF i = n
                   THEN \E t \in Threads : /\ thread[t].pc = "configure"
                                           /\ thread[t].ev = log[i].ev
                   ELSE log[i + 1].type = "call" /\ log[i + 1].ev = log[i].ev
       /\ \A i \in events :
             log[i].ev.n = Cardinality({j \in events : j <= i})
       /\ \A i \in events :
             /\ log[i].initial = (\E b \in initials : b < i)
             /\ ~log[i].initial => ~log[i].call
       /\ \A b \in initials :
             /\ \A l \in RemoteSelfLinks :
                   LET e == LastEventBefore(b, l)
                   IN log[b].map[l] = IF e.kind = "update" THEN e.peer ELSE NoPeer
             /\ {log[b].cfg.Peers[i] : i \in 1..Len(log[b].cfg.Peers)}
                   = {k8sToWgctrl(log[b].map[l]) :
                        l \in {k \in Known(log[b].map) :
                                 k8sToWgctrl(log[b].map[k]).err = "nil"}}
             /\ log[b].cfg.ReplacePeers

\* An event was applied before apply_initial_config and one after it, the
\* latter with its own call.
C20_Witness ==
    /\ Len(log) >= 5
    /\ log[1].type = "event" /\ log[1].ev.kind = "update"
    /\ log[2].type = "initial" /\ Len(log[2].cfg.Peers) = 1
    /\ log[3].type = "call"
    /\ log[4].type = "event" /\ log[4].call
    /\ log[5].type = "call" /\ ~log[5].cfg.ReplacePeers

(***************************************************************************)
(* Claims about findAddress                                                *)
(***************************************************************************)
\* start <= ip <= end
InRange(r, ip) ==
    /\ ipGreater(TRUE, ip, r.start).out
    /\ ipLess(TRUE, ip, r.end).out

\* The addresses of the pool's ranges that lie in [start, end] of their
\* range and are not in use.
FreeAddresses(p) ==
    UNION {{f.IP : f \in {g \in randomInCIDR(p.ranges[i].cidr) :
                             /\ InRange(p.ranges[i], g.IP)
                             /\ IPString(g.IP) \notin p.inUse}} :
              i \in 1..Len(p.ranges)}

\* C4: an address findAddress returns lies within [start, end] of some
\* range of the pool, carries that range's mask and is not in in_use,
\* whatever first_try was drawn.
C4_ResultInRange ==
    findResult.err = "nil" =>
        /\ \E i \in 1..Len(findPool.ranges) :
              /\ InRange(findPool.ranges[i], findResult.IP)
              /\ findResult.Mask = findPool.ranges[i].cidr.Mask
        /\ IPString(findResult.IP) \notin findPool.inUse

\* C5: findAddress returns an address whenever some range has an address
\* in [start, end] that is not in in_use; NoAvailableAddresses is reported
\* only when there is none.
C5_FindsFreeAddress ==
    (findResult # NotYet /\ FreeAddresses(findPool) # {}) => findResult.err = "nil"

(***************************************************************************)
(* Claims about ClaimIPs                                                   *)
(***************************************************************************)
\* The claim objects whose owner references name the agent.
OwnedBy(claims, a) == {c \in claims : a \in c.owners}

\* The call of agent a returns successfully in this step.
Succeeds(a) ==
    /\ ipam[a].pc # "done"
    /\ ipam'[a].pc = "done"
    /\ ipam'[a].err = "nil"

\* C2: when claim(owner, n) returns successfully, exactly n claim objects
\* of the registry carry the owner's reference, and the n returned
\* addresses are pairwise distinct and each within [start, end] of a range
\* of the pool.
C2_ClaimLeavesExactlyN ==
    [][\A a \in Agents :
          Succeeds(a) =>
              LET ips == ipam'[a].claimIPs
              IN /\ Cardinality(OwnedBy(regClaims', a)) = ipam'[a].n
                 /\ Len(ips) = ipam'[a].n
                 /\ \A i, j \in 1..Len(ips) : i # j => ~IPEqual(ips[i].IP, ips[j].IP)
                 /\ \A i \in 1..Len(ips) :
                       \E k \in 1..Len(ipam'[a].pool.ranges) :
                           InRange(ipam'[a].pool.ranges[k], ips[i].IP)]_vars

\* C3: with agents running claim concurrently against one pool and a
\* registry whose create is atomic per name, no address is handed back to
\* two different callers (whether the call that hands it back ends in
\* success or, with a partial result, in an error).
C3_NoDoubleAllocation ==
    \A a, b \in Agents : a # b => ipam[a].got \cap ipam[b].got = {}

\* One agent has been handed an address while another, whose snapshot of the
\* pool does not hold that address, had its create rejected.
C3_Witness ==
    \E a, b \in Agents :
        /\ a # b
        /\ ipam[a].pc = "done"
        /\ ipam[b].pc = "alloc"
        /\ ipam[b].lastCreate = "AlreadyExists"
        /\ \E x \in ipam[a].got : x \notin ipam[b].pool.inUse

FindIdle ==
    /\ findPool = [inUse |-> {}, ranges |-> <<>>]
    /\ findResult = NotYet

IpamIdle ==
    /\ ipPoolRecord = [ipRanges |-> <<>>, reserved |-> <<>>]
    /\ regClaims = {}
    /\ nextUID = 1
    /\ ipam = <<>>

\* C14: when an owner's claim call has returned n addresses with no error
\* and the owner calls again for n with no registry change in between, the
\* second call finds the first call's claims as the owner's existing claims,
\* each carrying its address as text: it loads n claims of its own, whose
\* addresses are the ones the first call returned (so that it hands the
\* same addresses back and neither creates nor deletes a claim), unless the
\* registry does not answer.
C14_SecondClaimSame ==
    [][\A a \in Agents :
         (/\ ipam[a].pc = "done" /\ ipam[a].err = "nil"
          /\ \A b \in Agents \ {a} : ipam[b].call = 0
          /\ ipam'[a].call = ipam[a].call + 1
          /\ ipam'[a].n = ipam[a].n)
         => \/ ipam'[a].pc = "done" /\ ipam'[a].err = "loading pool"
            \/ /\ ipam'[a].pc = IF ipam[a].n = 0 THEN "alloc" ELSE "reuse"
               /\ Len(ipam'[a].ourClaims) = ipam[a].n
               /\ \A i \in 1..Len(ipam'[a].ourClaims) :
                     /\ ipam'[a].ourClaims[i].ip.kind \in {"ip", "cidr"}
                     /\ \E j \in 1..Len(ipam[a].claimIPs) :
                           To16(ipam'[a].ourClaims[i].ip.ip)
                              = To16(ipam[a].claimIPs[j].IP)]_vars

\* The call of agent a ends in this step.
Returns(a) == ipam[a].pc # "done" /\ ipam'[a].pc = "done"

\* The addresses of the claims in cs, as net.IP.String prints them.
ClaimAddresses(cs) == {IPString(cs[i].ip.ip) : i \in 1..Len(cs)}

\* C22: a call for count addresses by an owner who already holds k >= count
\* claims (k >= 1), with no registry request failing other than a delete
\* reporting NotFound, returns without error exactly count addresses, all of
\* them addresses of the claims it loaded; it creates no claim; and, no
\* other agent being at work, exactly count claims of the owner remain.
C22_ReuseAndRelease ==
    [][\A a \in Agents :
         (/\ Returns(a)
          /\ ipam'[a].loaded # <<>>
          /\ ipam'[a].n <= Len(ipam'[a].loaded)
          /\ ipam'[a].err \notin {"loading pool", "deleting claim", "creating claim"})
         => /\ ipam'[a].err = "nil"
            /\ Len(ipam'[a].claimIPs) = ipam'[a].n
            /\ \A i \in 1..Len(ipam'[a].claimIPs) :
                  IPString(ipam'[a].claimIPs[i].IP) \in ClaimAddresses(ipam'[a].loaded)
            /\ ipam'[a].lastCreate = "none"
            /\ (\A b \in Agents \ {a} : ipam[b].call = 0)
                  => Cardinality(OwnedBy(regClaims', a)) = ipam'[a].n]_vars

\* C23: the release of a surplus claim is conditioned on the claim identity
\* read at load time: a claim leaves the registry only in a step in which an
\* agent releases the claim it loaded under that very name and UID, so a
\* claim deleted and created again under the same name by another agent
\* after the load is not removed by the release.
C23_ReleaseChecksIdentity ==
    [][\A c \in regClaims \ regClaims' :
         \E a \in Agents :
            /\ ipam[a].pc = "reuse"
            /\ ipam[a].count = 0
            /\ Head(ipam[a].ourClaims).name = c.name
            /\ Head(ipam[a].ourClaims).uid = c.uid
            /\ ipam'[a].lastDelete = "deleted"]_vars

\* An agent's release has been refused with Conflict, and the claim now
\* under the name it loaded is one another agent created after that load.
C23_Witness ==
    \E a, b \in Agents :
        /\ a # b
        /\ ipam[a].pc = "done"
        /\ ipam[a].lastDelete = "Conflict"
        /\ \E c \in regClaims :
              /\ c.uid \in ipam[b].created
              /\ \E i \in 1..Len(ipam[a].loaded) :
                    /\ ipam[a].loaded[i].name = c.name
                    /\ ipam[a].loaded[i].uid # c.uid

\* C24: when a call of an owner has ended in an error after it created
\* claims, the owner's next call (the registry answering its reads) loads
\* every such claim still in the registry as one of the owner's claims, to
\* be reused or deleted by that call.
C24_OrphansCollected ==
    [][\A a \in Agents :
         (/\ ipam[a].pc = "done"
          /\ ipam[a].err # "nil"
          /\ ipam'[a].call = ipam[a].call + 1
          /\ ipam'[a].err # "loading pool")
         => \A c \in regClaims :
               c.uid \in ipam[a].created
                  => /\ ipam'[a].pc = "reuse"
                     /\ \E i \in 1..Len(ipam'[a].loaded) : ipam'[a].loaded[i] = c]_vars

\* The call of agent a gets past loadPool in this step.
Loads(a) ==
    /\ ipam[a].pc \in {"idle", "done"}
    /\ ipam'[a].pc \in {"alloc", "reuse"}

\* The range an IPRange object stands for: start and end as written, or
\* the defaults of its CIDR.
RangeOf(ipr) ==
    LET cidr == ParseCIDR(ipr.CIDR).net
    IN [cidr |-> cidr,
        start |-> IF ipr.Start # EmptyText THEN ParseIP(ipr.Start)
                  ELSE defaultRangeStart(cidr).IP,
        end |-> IF ipr.End # EmptyText THEN ParseIP(ipr.End)
                ELSE defaultRangeEnd(cidr).IP]

\* C34: after a successful pool load, in_use is exactly the set of the
\* canonical strings of the pool's reserved addresses together with the
\* addresses of every claim object of the namespace, and the loaded ranges
\* are the pool's ranges, in some order, with start and end taken from the
\* record when present and defaulted from the CIDR otherwise.
C34_LoadedPool ==
    [][\A a \in Agents :
         Loads(a) =>
            LET rs == ipPoolRecord.ipRanges
                p == ipam'[a].pool
            IN /\ p.inUse =
                     {IPString(ParseIP(ipPoolRecord.reserved[i])) :
                         i \in 1..Len(ipPoolRecord.reserved)}
                     \cup {IPString(ParseIP(c.ip)) : c \in regClaims}
               /\ \E ord \in Orders(1..Len(rs)) :
                     p.ranges = [i \in 1..Len(rs) |-> RangeOf(rs[ord[i]])]]_vars

\* A pool with start and end set and its reserved address written as
\* ::ffff:10.0.0.1 has been loaded while another agent's claim was listed.
C34_Witness ==
    \E a \in Agents :
        /\ ipam[a].pc \in {"alloc", "reuse"}
        /\ ipPoolRecord.reserved = <<IPText(To16(A(1)))>>
        /\ ipam[a].pool.ranges[1].start = To16(A(2))
        /\ ipam[a].loaded = <<>>
        /\ ipam[a].pool.inUse = {IPString(A(1)), IPString(A(2))}

\* An IPv4 address as a number.
AddressNumber(ip) ==
    LET x == To4(ip) IN ((x[1] * 256 + x[2]) * 256 + x[3]) * 256 + x[4]

\* The address lies in the network the CIDR text denotes.
Within(ip, cidr) ==
    LET size == pow2(IPv4len * 8 - cidr.ones)
    IN AddressNumber(ip) \div size = AddressNumber(cidr.ip) \div size

\* What is wrong with the pool and the claims as they stand: the message
\* for the field, and the field's value.
Offending ==
    LET rs == ipPoolRecord.ipRanges
        rv == ipPoolRecord.reserved
        Bound(field, t, cidr) ==
            IF t.kind = "empty" THEN {}
            ELSE IF t.kind # "ip" THEN {<<"parsing", field, t>>}
            ELSE IF cidr.kind = "cidr" /\ ~Within(t.ip, cidr)
            THEN {<<"not contained", field, t>>}
            ELSE {}
    IN UNION {(IF rs[i].CIDR.kind # "cidr"
               THEN {<<"parsing", "ipv4.cidr", rs[i].CIDR>>} ELSE {})
              \cup Bound("ipv4.start", rs[i].Start, rs[i].CIDR)
              \cup Bound("ipv4.end", rs[i].End, rs[i].CIDR) : i \in 1..Len(rs)}
       \cup {<<"parsing", "reserved ip", rv[i]>> :
                 i \in {j \in 1..Len(rv) : rv[j].kind # "ip"}}
       \cup {<<"parsing", "claim", c.ip>> : c \in {d \in regClaims : d.ip.kind # "ip"}}

\* The message of loadPool for what is wrong with a field.
LoadMessage(what, field) ==
    IF what = "not contained"
    THEN IF field = "ipv4.start" THEN "ipv4.start was not contained by cidr"
         ELSE "ipv4.end was not contained by cidr"
    ELSE IF field = "ipv4.cidr" THEN "parsing ipv4.cidr"
    ELSE IF field = "ipv4.start" THEN "parsing ipv4.start"
    ELSE IF field = "ipv4.end" THEN "parsing ipv4.end"
    ELSE IF field = "reserved ip" THEN "parsing reserved ip"
    ELSE "parsing claim"

\* C35: if the load phase fails - a range's explicit start or end is not
\* contained in its CIDR, or a CIDR, a reserved address or a claim address
\* does not parse - the call returns an error naming the offending field
\* and value, returns no address and performs no registry write: no claim
\* is created and none is deleted.
C35_LoadFailure ==
    [][\A a \in Agents :
         (ipam'[a].call = ipam[a].call + 1 /\ Offending # {})
         => /\ ipam'[a].pc = "done"
            /\ ipam'[a].err # "nil"
            /\ ipam'[a].claimIPs = Nil
            /\ regClaims' = regClaims
            /\ ipam'[a].err # "loading pool"
                  => \E o \in Offending :
                        /\ ipam'[a].err = LoadMessage(o[1], o[2])
                        /\ ipam'[a].errValue = o[3]]_vars

\* A call has failed on a start outside its CIDR with claims in the
\* registry.
C35_Witness ==
    \E a \in Agents :
        /\ ipam[a].pc = "done"
        /\ ipam[a].err = "ipv4.start was not contained by cidr"
        /\ ipam[a].errValue = IPText(B(1))
        /\ regClaims # {}

\* C36: claim(owner, count) terminates for every pool snapshot and count:
\* each retry after AlreadyExists or Conflict makes progress, so a call
\* that has loaded its pool eventually returns (count addresses, or an
\* error such as NoAvailableAddresses), also when an address the loaded
\* snapshot shows as free has since been claimed by another agent or by an
\* earlier iteration of the same call.
C36_ClaimTerminates ==
    \A a \in Agents : (ipam[a].pc \in {"reuse", "alloc"}) ~> (ipam[a].pc = "done")

(***************************************************************************)
(* Claims about the address arithmetic                                     *)
(***************************************************************************)
\* C15: from every address a of a CIDR, incrementIP applied again and again
\* stays in the CIDR and is back at a for the first time after exactly
\* 2^host_bits applications (having then visited 2^host_bits different
\* addresses, that is every address of the CIDR), whether the host part
\* lies in one byte or spans several.
C15_IncrementVisitsAll ==
    LET hostBits == 8 * Len(walkCur.Mask) - maskOnes(walkCur.Mask)
    IN addrPc = "ranged" =>
         /\ Contains(addrCidr, walkCur.IP)
         /\ (walkSteps > 0 /\ IPEqual(walkCur.IP, walkStart)) =>
               walkSteps = pow2(hostBits)
         /\ walkSteps = pow2(hostBits) => IPEqual(walkCur.IP, walkStart)

\* C16: range_start and range_end lie in the CIDR and range_start <=
\* range_end; for an IPv4 CIDR of prefix /30 or shorter range_start is the
\* network address plus one and range_end the broadcast address minus one;
\* for IPv4 /31 and /32 and for IPv6 range_start is the network address and
\* range_end the address whose host bits are all ones.  (An IPv4 CIDR
\* written in IPv6 notation counts as the IPv4 CIDR it is.)
C16_DefaultRange ==
    LET v4 == To4(addrCidr.IP) # Nil
        ip == IF v4 THEN To4(addrCidr.IP) ELSE addrCidr.IP
        mask == IF v4 /\ Len(addrCidr.Mask) = IPv6len
                THEN SubSeq(addrCidr.Mask, 13, 16) ELSE addrCidr.Mask
        n == Len(ip)
        network == [i \in 1..n |-> byteAnd[ip[i]][mask[i]]]
        allOnes == [i \in 1..n |-> byteOr[ip[i]][255 - mask[i]]]
        reserve == v4 /\ maskOnes(mask) <= 30
    IN addrPc = "ranged" =>
         /\ rangeStart.err = "nil" /\ rangeEnd.err = "nil"
         /\ Contains(addrCidr, rangeStart.IP)
         /\ Contains(addrCidr, rangeEnd.IP)
         /\ lexGreater(TRUE, rangeEnd.IP, rangeStart.IP)
         /\ rangeStart.IP = IF reserve THEN [network EXCEPT ![n] = @ + 1]
                            ELSE network
         /\ rangeEnd.IP = IF reserve THEN [allOnes EXCEPT ![n] = @ - 1]
                          ELSE allOnes

\* The default range of an IPv4 /29 and of an IPv6 /126 have been computed.
C16_Witness ==
    /\ addrPc = "ranged"
    /\ \/ addrCidr.IP = A(8) /\ rangeStart.IP = A(9) /\ rangeEnd.IP = A(14)
       \/ addrCidr.IP = V6(<<0, 0>>) /\ rangeEnd.IP = V6(<<0, 3>>)

(***************************************************************************)
(* Claims about the interface factory                                      *)
(***************************************************************************)
\* C12: next_name returns the desired name for a literal name with an empty
\* last and fails for a literal name with a non-empty last; for a wildcard
\* name it returns the prefix followed by 0 when last is empty and
\* prefix+(k+1) when last is prefix+k, failing with the invalid-name error
\* once that is longer than a name may be; the names returned in a row from
\* an empty last are prefix0, prefix1, ... and none is repeated.
C12_NextName ==
    /\ [][LET d == options.InterfaceName
              prefix == SubSeq(d, 1, Len(d) - 1)
              returns(n) == /\ ifaceName' = n /\ createErr' = ""
                            /\ namesSeen' = Append(namesSeen, n)
              fails == /\ createPc' = "returned" /\ createErr' # ""
                       /\ namesSeen' = namesSeen
          IN createPc = "name" =>
               IF d[Len(d)] # "+"
               THEN IF ifaceName = <<>> THEN returns(d) ELSE fails
               ELSE IF ifaceName = <<>> THEN returns(prefix \o <<"0">>)
               ELSE \A k \in 0..(MaxNames + 1) :
                       ifaceName = prefix \o decimal(k) =>
                          IF Len(prefix \o decimal(k + 1)) > IFNAMSIZ - 1
                          THEN fails /\ createErr' = "too long"
                          ELSE returns(prefix \o decimal(k + 1))]_vars
    /\ [](LET d == options.InterfaceName
              prefix == SubSeq(d, 1, Len(d) - 1)
          IN d[Len(d)] = "+" =>
               /\ \A i \in 1..Len(namesSeen) :
                     namesSeen[i] = prefix \o decimal(i - 1)
               /\ \A i, j \in 1..Len(namesSeen) :
                     i # j => namesSeen[i] # namesSeen[j])

\* C13: under AutoSelect the drivers are tried in the order Kernel,
\* BoringTun, WireGuardGo, a later one only after every earlier one failed
\* with driver-not-found or unimplemented, and any other failure is
\* returned with no later driver tried; under an explicit choice only that
\* driver is tried and its driver-not-found/unimplemented failure is
\* returned as the error.
C13_DriverSelection ==
    LET order == <<"Kernel", "BoringTun", "WireGuardGo">>
        soft == {"NotFound", "Unimplemented"}
        n == Len(attempts)
        chosen == IF options.Driver = "KernelDriver" THEN "Kernel"
                  ELSE IF options.Driver = "BoringTunDriver" THEN "BoringTun"
                  ELSE "WireGuardGo"
    IN /\ options.Driver = "AutoSelect" =>
             /\ n <= 3
             /\ \A i \in 1..n : attempts[i][1] = order[i]
             /\ \A i \in 1..(n - 1) : attempts[i][2] \in soft
             /\ (n > 0 /\ attempts[n][2] \notin soft \cup {"ok", "Exist"}) =>
                   createPc = "returned" /\ createErr = attempts[n][2]
             /\ (n > 0 /\ attempts[n][2] = "Exist") => createPc = "name"
       /\ options.Driver = "ExistingInterface" => n = 0
       /\ options.Driver \in {"KernelDriver", "BoringTunDriver",
                              "WireGuardGoDriver"} =>
             /\ n <= 1
             /\ \A i \in 1..n : attempts[i][1] = chosen
             /\ (n = 1 /\ attempts[1][2] \in soft) =>
                   createPc = "returned" /\ createErr = attempts[1][2]

\* All three drivers were tried under AutoSelect, the last with success.
C13_Witness ==
    /\ options.Driver = "AutoSelect"
    /\ attempts = <<<<"Kernel", "Unimplemented">>, <<"BoringTun", "NotFound">>,
                    <<"WireGuardGo", "ok">>>>
    /\ createPc = "returned" /\ createErr = ""

\* Reuse was requested of the call.
ReuseRequested == options.ReuseExisting \/ options.Driver = "ExistingInterface"

\* The call has dealt with a candidate it found existing and may adopt.
ReuseDecided ==
    /\ ReuseRequested
    /\ ifaceName \in existing
    /\ createPc \in {"port", "returned"}

C26_ExistingOnly ==
    options.Driver = "ExistingInterface" =>
        /\ attempts = <<>>
        /\ made = NothingMade
        /\ createPc \notin {"Kernel", "BoringTun", "WireGuardGo"}
        /\ handle # NoHandle =>
              /\ handle = [name |-> ifaceName, by |-> "existing"]
              /\ ifaceName \in existing
        /\ (createPc = "returned" /\ ifaceName \notin existing) =>
              /\ createErr # ""
              /\ handle = NoHandle

\* The call with the ExistingInterface driver has failed for a name that no
\* interface carries.
C26_Witness ==
    /\ options.Driver = "ExistingInterface"
    /\ createPc = "returned"
    /\ ifaceName # <<>>
    /\ ifaceName \notin existing
    /\ createErr = "no wireguard drivers succeeded"

\* The drivers that make an interface.
Drivers == {"Kernel", "BoringTun", "WireGuardGo"}

C28_PortFailureUnwinds ==
    (createPc = "returned" /\ createErr = "setting WireGuard listen port")
        => made.links = {} /\ made.children = {}

(***************************************************************************)
(* Claims about the interface lifecycle                                    *)
(***************************************************************************)
\* A Close call returns in this step.
CloseReturns == closesReturned' = closesReturned + 1

\* This step makes no LinkDel, Signal or Kill call.
NoTeardownCall ==
    /\ linkDelCalls' = linkDelCalls
    /\ signals' = signals
    /\ kills' = kills

\* C8: Close is idempotent on every handle: once a Close has returned, a
\* later Close makes no further link deletion, signal or kill and returns no
\* error.
C8_CloseIdempotent ==
    [][closesReturned >= 1 =>
          /\ NoTeardownCall
          /\ CloseReturns => lastCloseErr' = "nil"]_vars

\* C8, as the code has it: on a userspace-made handle a Close after the
\* first makes no link deletion, signal or kill and returns no error; on a
\* kernel-made handle every Close asks for the link's deletion once more,
\* and when the link is already gone that Close returns no error and leaves
\* the link gone.
C8_CloseIdempotentByKind ==
    [][/\ (kind = "userspace" /\ closesReturned >= 1) =>
              /\ NoTeardownCall
              /\ CloseReturns => lastCloseErr' = "nil"
       /\ (kind = "kernel" /\ CloseReturns) =>
              /\ linkDelCalls' = linkDelCalls + 1
              /\ signals' = signals /\ kills' = kills
              /\ ~linkPresent => (lastCloseErr' = "nil" /\ ~linkPresent')]_vars

\* A second Close has returned on a userspace-made handle whose first Close
\* deleted the link, signalled and killed.
C8_Witness ==
    /\ kind = "userspace"
    /\ closesReturned = 2
    /\ linkDelCalls = 1
    /\ signals = 1
    /\ kills = 1

\* C9: a Close on a userspace-made handle always returns.
C9_CloseReturns ==
    (kind = "userspace" /\ closePc # "idle") ~> (closePc = "idle")

\* What waitForInterface returned agrees with what it received.
WaitResultHasCause ==
    /\ waitResult = "nil" => (kind = "kernel" \/ lastUpdate = ifName)
    /\ waitResult = "userspace driver exited 0" => (child = "reaped" /\ exitVal = "nil")
    /\ waitResult = "userspace driver exited N" =>
           (child = "reaped" /\ exitVal = "ExitError")
    /\ waitResult = "monitoring userspace driver" =>
           (child = "reaped" /\ exitVal = "other")
    /\ waitResult = "timeout" => timerFired
    /\ waitResult = "context canceled" => ctxDone

\* An update for another name leaves the wait going.
OtherUpdateIgnored ==
    (waitResult = "pending" /\ lastUpdate' = "eth0" /\ ignored' # ignored) =>
        waitResult' = "pending"

\* C10: waitForInterface returns a handle only on a link update carrying
\* the requested name and skips updates for other names; a child that
\* exits first gives a driver-exited error (for status 0 too), the timeout
\* a timeout error, a cancelled context the context's error; and the wait
\* returns in every case.
C10_WaitForInterface ==
    /\ []WaitResultHasCause
    /\ [][OtherUpdateIgnored]_vars
    /\ <>(waitResult \notin {"subscribe", "pending"})

\* A handle was returned after an update for another name had been skipped.
C10_Witness ==
    /\ kind = "userspace"
    /\ waitResult = "nil"
    /\ ignored >= 1
    /\ lastUpdate = ifName

(***************************************************************************)
(* Claims about registration                                               *)
(***************************************************************************)
\* C29: Close on a userspace-created interface goes through delete-link,
\* termination signal, wait, kill-on-timeout in that order.  The signal is
\* sent only after the link deletion was attempted, the kill only from the
\* wait that follows the attempt to signal; a failed link deletion does not
\* keep Close from the signal (or, the child being seen as exited, from the
\* wait for it), a failed signal does not keep it from the wait and the
\* kill; and the Close that did these steps returns the last error it
\* collected, or none.
C29_CloseOrder ==
    /\ [](/\ signals > 0 => linkDelCalls > 0
          /\ kills > 0 => signals > 0
          /\ kind = "kernel" => signals = 0 /\ kills = 0)
    /\ [][/\ signals' # signals =>
                /\ closePc = "processState"
                /\ signals' = signals + 1
                /\ linkDelCalls > 0
          /\ kills' # kills =>
                /\ closePc = "select"
                /\ kills' = kills + 1
                /\ signals > 0
          /\ (closePc = "processState" /\ closePc' # closePc) =>
                \/ signals' = signals + 1 /\ closePc' = "select"
                \/ child = "reaped" /\ closePc' = "driverExit"
          /\ (closePc = "select" /\ closePc' # closePc) =>
                \/ kills' = kills + 1
                \/ child = "reaped" /\ driverExit # Nil /\ closePc' = "idle"
          /\ (closePc # "idle" /\ closePc' = "idle") =>
                /\ CloseReturns
                /\ lastCloseErr' = lastOf(errs')]_vars

\* A Close has returned after a failed link deletion, a failed signal and a
\* failed kill, with the error of the kill.
C29_Witness ==
    /\ kind = "userspace"
    /\ closesReturned > 0
    /\ linkDelCalls = 1 /\ signals = 1 /\ kills = 1
    /\ errs = <<"deleting interface", "signaling shutdown to userspace driver",
                "killing userspace driver">>
    /\ lastCloseErr = "killing userspace driver"

\* C30: when the record under the agent's name already exists and its
\* endpoint is the agent's, the Update that completes the registration
\* leaves in the registry a record with the public key and the pre-shared
\* key the agent has just generated.
C30_UpdateCarriesFreshKeys ==
    [][(runPc = "update" /\ runPc' = "watch") =>
          /\ selfRecord'.ep = endpointAddr
          /\ selfRecord'.pk = publicKey
          /\ selfRecord'.psk = psk]_vars

\* C31: applyInitialConfig is invoked only after HasSynced has answered
\* true, and every remote peer of the informer's first list is in the
\* tracker's map when the bulk configuration is built; when the wait for the
\* cache has failed, applyInitialConfig is never invoked and the reconciler
\* makes no device call.
C31_ReplayedInBulk ==
    /\ [][(~initialConfigApplied /\ initialConfigApplied') =>
            /\ hasSynced
            /\ \A l \in replayed \ {LocalSelfLink} : peers[l] # NoPeer]_vars
    /\ [](cfgErr = "failed to sync WireGuardPeers" =>
            ~initialConfigApplied /\ ~deviceTouched)

\* The part of C31 that does not depend on when the listener runs.
C31_AppliedOnlyAfterSync ==
    /\ [][(~initialConfigApplied /\ initialConfigApplied') => hasSynced]_vars
    /\ [](cfgErr = "failed to sync WireGuardPeers" =>
            ~initialConfigApplied /\ ~deviceTouched)

\* The safety half of C32: the interface is closed only when the informer
\* goroutine has exited and Run has returned, so no device call follows the
\* start of the close, and it is closed at most once.
C32_CloseAfterInformer ==
    /\ linkDelCalls <= 1
    /\ linkDelCalls > 0 =>
          /\ informerPc \in {"none", "exited"}
          /\ agentPc = "returned"
          /\ pending = <<>>

C39_StartFailureReturned ==
    (agentPc = "returned" /\ cfgErr \notin {"none", "nil"}) => agentRunErr # "nil"

\* C33: the keepalive configured for a peer is none when the peer
\* advertises 0; the advertised value when it is > 0 and the local maximum
\* is unset (0) or not lower; the local maximum when that is set and lower
\* than the advertised value.  The configured interval never exceeds a set
\* local maximum.
C33_KeepaliveCapped ==
    keepaliveOut.made =>
        /\ KeepAliveSeconds = 0 => keepaliveOut.seconds = 0
        /\ (KeepAliveSeconds > 0 /\ (ptKeepalive = 0 \/ ptKeepalive >= KeepAliveSeconds))
              => keepaliveOut.seconds = KeepAliveSeconds
        /\ (KeepAliveSeconds > 0 /\ ptKeepalive > 0 /\ ptKeepalive < KeepAliveSeconds)
              => keepaliveOut.seconds = ptKeepalive
        /\ ptKeepalive > 0 => keepaliveOut.seconds <= ptKeepalive

\* A peer advertising more than the set local maximum has been translated.
C33_Witness ==
    /\ keepaliveOut.made
    /\ ptKeepalive > 0
    /\ KeepAliveSeconds > ptKeepalive
    /\ keepaliveOut.seconds = ptKeepalive

\* C37: in every state in which all delivered events have been processed,
\* the key set of the peer map equals the set of self-links of the non-local
\* records in the observed registry state; in particular a peer whose
\* delete event has been processed, before or after apply_initial_config,
\* is no longer in the map.
C37_MapKeysMatchRegistry ==
    Known(peers) = {l \in RemoteSelfLinks : reg[l] # NoPeer}

\* C38: after an update event that changes the public key of a known peer
\* has been processed, apply_initial_config having run, the device holds no
\* peer entry under that peer's previous public key (unless another record
\* of the registry carries that key).
C38_NoEntryUnderPreviousKey ==
    [][\A l \in RemoteSelfLinks :
         (/\ initialConfigApplied
          /\ lastEvent' = [what |-> "update", link |-> l]
          /\ peers[l] # NoPeer
          /\ reg'[l].pk # peers[l].pk
          /\ k8sToWgctrl(peers[l]).err = "nil"
          /\ \A m \in RemoteSelfLinks \ {l} :
                reg'[m] # NoPeer => reg'[m].pk # peers[l].pk)
         => \A d \in device' : d.PublicKey # k8sToWgctrl(peers[l]).PublicKey]_vars

\* C40: whenever the creation of the interface fails after the userspace
\* driver was spawned - the link did not appear before the timeout, the
\* context was cancelled, or a link event was malformed - the child is not
\* left running: it has exited or been terminated by the time the error is
\* returned.
C40_NoChildLeftRunning ==
    [][(/\ kind = "userspace"
        /\ waitResult = "pending"
        /\ waitResult' \in {"timeout", "context canceled",
                             "netlink update had nil link attributes"})
       => child' # "running"]_vars

\* C11: when Create reports already-exists and the fetched record's
\* endpoint differs from the local endpoint, registration fails with the
\* name-conflict error, Run returns that error, and no Update is sent: the
\* step leaves the stored record as it is.
C11_NameConflictIsFatal ==
    /\ [](runErr = "PeerNameConflict" =>
            /\ runPc = "returned"
            /\ selfUpdates = 0
            /\ localPeer.ep # endpointAddr)
    /\ [][(/\ runPc = "get"
           /\ selfRecord # NoRecord
           /\ localPeer' = selfRecord
           /\ selfRecord.ep # endpointAddr) =>
              /\ runPc' = "returned"
              /\ runErr' = "PeerNameConflict"
              /\ selfRecord' = selfRecord
              /\ selfUpdates' = selfUpdates]_vars

\* Run has returned the name-conflict error over a stored record that
\* differs from the local one in its endpoint.
C11_Witness ==
    /\ runPc = "returned"
    /\ runErr = "PeerNameConflict"
    /\ selfRecord # NoRecord
    /\ selfRecord.ep # endpointAddr

IfaceIdle ==
    /\ kind = "kernel"
    /\ waitResult = "none"
    /\ lastUpdate = "none"
    /\ ignored = 0
    /\ timerFired = FALSE
    /\ ctxDone = FALSE
    /\ child = "none"
    /\ exitVal = "none"
    /\ linkPresent = FALSE
    /\ closePc = "idle"
    /\ closedOnce = FALSE
    /\ errs = <<>>
    /\ closesReturned = 0
    /\ lastCloseErr = "none"
    /\ linkDelCalls = 0
    /\ signals = 0
    /\ kills = 0

RunIdle ==
    /\ selfRecord = NoRecord
    /\ endpointAddr = "e1"
    /\ publicKey = "k1"
    /\ psk = "s1"
    /\ localPeer = EmptyPeer
    /\ runPc = "idle"
    /\ runErr = "none"
    /\ selfUpdates = 0

\* no call of the interface factory
CreateIdle ==
    /\ options = [InterfaceName |-> <<>>, Driver |-> "AutoSelect",
                  ReuseExisting |-> FALSE, Port |-> 0]
    /\ ifaceName = <<>>
    /\ createPc = "returned"
    /\ createErr = ""
    /\ attempts = <<>>
    /\ namesSeen = <<>>
    /\ existing = {}
    /\ made = NothingMade
    /\ handle = NoHandle
    /\ seenDev = NotAsked

\* no CIDR under study
AddrIdle ==
    /\ addrCidr = [IP |-> Nil, Mask |-> Nil]
    /\ addrPc = "idle"
    /\ rangeStart = Nil
    /\ rangeEnd = Nil
    /\ walkStart = Nil
    /\ walkCur = [IP |-> Nil, Mask |-> Nil]
    /\ walkSteps = 0

\* the reconciler's goroutines are not followed step by step
LockIdle ==
    /\ mutex = FALSE
    /\ thread = <<>>
    /\ evCount = 0
    /\ log = <<>>

\* no agent under study
AgentIdle ==
    /\ agentCtx = FALSE
    /\ informerPc = "none"
    /\ hasSynced = FALSE
    /\ replayed = {}
    /\ pending = <<>>
    /\ agentPc = "idle"
    /\ cfgErr = "none"
    /\ agentRunErr = "none"
    /\ agentClosePc = "idle"

\* no keepalive under study
KeepaliveIdle ==
    /\ ptKeepalive = 0
    /\ KeepAliveSeconds = 0
    /\ keepaliveOut = NoInterval

LibIdle == CreateIdle /\ AddrIdle /\ LockIdle /\ AgentIdle /\ KeepaliveIdle

Init == PeerInit /\ FindIdle /\ IpamIdle /\ IfaceIdle /\ RunIdle /\ LibIdle

Next == PeerNext

Spec == Init /\ [][Next]_vars

IPAMInit == IpamInit /\ PeerInit /\ FindIdle /\ IfaceIdle /\ RunIdle /\ LibIdle

IPAMSpec == IPAMInit /\ [][IpamNext]_vars

\* A call that can take a step of its own takes one; nothing is assumed of
\* the registry failing a Create.
IPAMFairness ==
    \A a \in Agents :
        /\ WF_vars(ClaimIPs_ourClaim(a))
        /\ WF_vars(ClaimIPs_alloc(a) /\ ipam'[a].err # "creating claim")
        /\ WF_vars(ClaimIPs_return(a))

IPAMFairSpec == IPAMSpec /\ IPAMFairness

FindSpecInit == FindInit /\ PeerInit /\ IpamIdle /\ IfaceIdle /\ RunIdle /\ LibIdle

FindSpec == FindSpecInit /\ [][FindNext]_vars

IfaceSpecInit == IfaceInit /\ PeerInit /\ FindIdle /\ IpamIdle /\ RunIdle /\ LibIdle

IfaceSpec == IfaceSpecInit /\ [][IfaceNext]_vars

\* The timers fire, the goroutines that can run do run, and a select with
\* a ready case is taken; nothing is assumed of the driver, the links or
\* the context.
IfaceFairness ==
    /\ WF_vars(waitForInterface_subscribe)
    /\ WF_vars(timer_fires)
    /\ WF_vars(waitForInterface_timeout)
    /\ WF_vars(cmdExit_Wait)
    /\ WF_vars(Close_signal)
    /\ WF_vars(Close_select)

IfaceFairSpec == IfaceSpecInit /\ [][IfaceNext]_vars /\ IfaceFairness
RunSpecInit == RunInit /\ PeerInit /\ FindIdle /\ IpamIdle /\ IfaceIdle /\ LibIdle

RunSpec == RunSpecInit /\ [][RunNext]_vars

CreateSpecInit ==
    /\ CreateInit /\ AddrIdle /\ LockIdle /\ AgentIdle /\ KeepaliveIdle
    /\ PeerInit /\ FindIdle /\ IpamIdle /\ IfaceIdle /\ RunIdle

CreateSpec == CreateSpecInit /\ [][CreateNext]_vars

AddrSpecInit ==
    /\ AddrInit /\ CreateIdle /\ LockIdle /\ AgentIdle /\ KeepaliveIdle
    /\ PeerInit /\ FindIdle /\ IpamIdle /\ IfaceIdle /\ RunIdle

AddrSpec == AddrSpecInit /\ [][AddrNext]_vars

LockSpecInit ==
    /\ LockInit /\ PeerInit /\ CreateIdle /\ AddrIdle /\ AgentIdle
    /\ KeepaliveIdle
    /\ FindIdle /\ IpamIdle /\ IfaceIdle /\ RunIdle

LockSpec == LockSpecInit /\ [][LockNext]_vars

AgentSpecInit ==
    /\ AgentInit /\ AgentIfaceInit /\ PeerInit /\ FindIdle /\ IpamIdle /\ RunIdle
    /\ CreateIdle /\ AddrIdle /\ LockIdle /\ KeepaliveIdle

AgentSpec == AgentSpecInit /\ [][AgentNext]_vars

\* Every goroutine that can take a step does: Run, the informer and its
\* listener, Close and the goroutine of cmdExit; a select with a ready case
\* is taken.  Nothing is assumed of the signal, the registry or the driver.
AgentFairness ==
    /\ WF_vars(configureWireGuardPeers_launch)
    /\ WF_vars(configureWireGuardPeers_WaitForCacheSync)
    /\ WF_vars(configureWireGuardPeers_applyInitialConfig)
    /\ WF_vars(Run_return)
    /\ WF_vars(listener_OnAdd)
    /\ WF_vars(informer_exits)
    /\ WF_vars(Agent_Close)
    /\ WF_vars(Agent_Close_wgWait)
    /\ WF_vars(Agent_Close_iface)
    /\ WF_vars(Agent_Close_return)
    /\ WF_vars(cmdExit_Wait)
    /\ WF_vars(Close_signal)
    /\ WF_vars(Close_select)

AgentFairSpec == AgentSpecInit /\ [][AgentNext]_vars /\ AgentFairness

KeepaliveSpecInit ==
    /\ KeepaliveInit /\ PeerInit /\ FindIdle /\ IpamIdle /\ IfaceIdle /\ RunIdle
    /\ CreateIdle /\ AddrIdle /\ LockIdle /\ AgentIdle

KeepaliveSpec == KeepaliveSpecInit /\ [][KeepaliveNext]_vars
====
